---- MODULE Spec2Model ----
(***************************************************************************)
(* Verification model of the Reservoir authentication gateway.             *)
(*                                                                         *)
(*   SpecRL    password login and the Redis rate limiter                   *)
(*             (internal/ratelimit, internal/auth/service.go, handler.go)  *)
(*                                                                         *)
(*   SpecOAuth OAuth state tokens and the provider callback                *)
(*             (internal/oauth/state.go, google.go, service.go)            *)
(*                                                                         *)
(*   SpecCodec the JWT codec: Generate, Validate, ValidateRefreshToken      *)
(*             (internal/token/jwt.go, claims.go)                          *)
(*                                                                         *)
(*   SpecSession logout, the blacklist and the protected route /auth/me    *)
(*             (internal/token/blacklist.go, internal/auth/service.go,     *)
(*              handler.go, internal/middleware/security.go)               *)
(*                                                                         *)
(*   SpecDir   account linking of an OAuth profile to a directory subject  *)
(*             (internal/oauth/service.go, internal/user/repository.go)    *)
(*                                                                         *)
(*   SpecMagic login tokens (magic links)                                  *)
(*             (internal/auth/service.go AuthenticateLoginToken,           *)
(*              handler.go LoginWithToken, internal/user/repository.go)    *)
(*                                                                         *)
(*   SpecLogin one of the three ways to log in (password, magic link,      *)
(*             OAuth) with their best-effort directory writes              *)
(*                                                                         *)
(*   SpecShutdown the HTTP server and its graceful shutdown                *)
(*             (cmd/server/main.go)                                        *)
(*                                                                         *)
(*   SpecOrphan SpecDir on a directory with a role record whose subject    *)
(*             is gone                                                     *)
(*                                                                         *)
(*   SpecKeys  the limiter keys of a login's email and address             *)
(*             (internal/auth/validator.go SanitizeEmail,                  *)
(*              internal/ratelimit)                                        *)
(*                                                                         *)
(*   SpecLast  users.last_logged_on under concurrent logins                *)
(*             (internal/user/repository.go UpdateLastLoggedOn)            *)
(*                                                                         *)
(* Every Redis call is one step of the request that makes it, so requests  *)
(* interleave at the calls, and each call may fail (the store is           *)
(* unreachable or the request context is cancelled).  Redis TTLs are kept  *)
(* as remaining ticks and counted down by the clock action.                *)
(***************************************************************************)
EXTENDS Integers, Sequences, FiniteSets, TLC

\* ------------------------------------------------------------------ bounds
NumProcs == 2          \* concurrent login requests for the one key
MaxAttempts == 2       \* cfg.RateLimit.MaxAttempts (default 5)
Window == 2            \* cfg.RateLimit.Window, in ticks
LockoutDuration == 2   \* cfg.RateLimit.LockoutDuration, in ticks
MaxCount == 4          \* cap on the attempt counter's value
MaxGuesses == 4        \* cap on the failed credential checks counted

NumStates == 2         \* state tokens GenerateState can draw
NumCbs == 2            \* concurrent OAuth callback requests
StateTTL == 2          \* StateManager.ttl (10 minutes), in ticks

Res == 2               \* clock ticks per second
MaxTime == 6           \* the wall clock stops here
MaxGen == 2            \* token pairs Generate issues

NumUsers == 5          \* subjects in the directory
NumSubs == 2           \* provider subjects a provider can report
NumLinks == 2          \* concurrent account-linking requests

NumTokens == 2         \* rows of login_tokens
NumReqs == 2           \* concurrent magic-link requests
LoginTokenTTL == 2     \* 5 * time.Minute, in ticks
MaxAge == 4            \* login tokens stop ageing here
MaxUses == 3           \* cap on the successes counted per login token

NumConns == 3          \* connections a client opens
ShutdownBudget == 3    \* the 5 * time.Second of server.Shutdown, in ticks
MaxEmailLen == 3       \* characters of an email a client sends

Procs == 1..NumProcs
States == 1..NumStates
Cbs == 1..NumCbs

VARIABLES
  counter,     \* Redis key ratelimit:login:{addr}:{email}
  lockout,     \* Redis key ratelimit:lockout:{addr}:{email}: remaining TTL, 0 = absent
  pc,          \* position of each login request
  snap,        \* what the running CheckLoginAttempt of a request has seen
  chk,         \* return value of CheckLoginAttempt of each request
  resp,        \* HTTP response of each login request
  recorded,    \* failed logins recorded since the attempt counter was created
  attempt,     \* what each login request has met and written so far
  guesses      \* failed credential checks since the counter was last reset,
               \* -1 once a limiter call has failed since then

rlVars == <<counter, lockout, pc, snap, chk, resp, recorded, attempt, guesses>>

VARIABLES
  oauthKeys,   \* Redis keys oauth:state:{state}: [ttl, url], ttl 0 = absent
  nextState,   \* number of state tokens GenerateState has drawn
  cb,          \* the OAuth callback requests
  validated,   \* per state token, how many callbacks ValidateState has accepted
  issuedBy     \* per state token, the provider whose GetAuthURL drew it (the
               \* store holds the redirect URL only)

oaVars == <<oauthKeys, nextState, cb, validated, issuedBy>>

VARIABLES
  now,         \* time.Now(), in ticks
  cfg,         \* token.Service: the two secrets and the two lifetimes
  gen,         \* the latest Generate call: its arguments, its time, its token pair
  nextJti,     \* number of token identifiers uuid.New() has drawn
  vres,        \* the latest Validate / ValidateRefreshToken call and its result
  blacklist,   \* Redis keys blacklist:jti:{jti}: remaining TTL, 0 = absent
  loggedOut,   \* token identifiers for which POST /auth/logout stored an entry
  sres         \* the latest /auth/logout or /auth/me request and its response

tokVars == <<now, cfg, gen, nextJti, vres, blacklist, loggedOut, sres>>

VARIABLES
  users,       \* table users: id -> [email, meta_type, meta_id]
  roles,       \* tables teachers, students, parents: <<table, id>> -> record
  lk           \* the requests in findOrCreate{Google,Clever,iCloud}User
dirVars == <<users, roles, lk>>

VARIABLES
  loginTokens, \* table login_tokens: id -> [present, user_id, permanent, age]
  ml,          \* the requests in AuthenticateLoginToken
  uses         \* successful authentications per login token
mlVars == <<loginTokens, ml, uses>>

VARIABLES
  srv,         \* the process: "running", "draining" (in server.Shutdown),
               \* "stopped" (main returned) or "killed" (logger.Fatal)
  budget,      \* what is left of the context.WithTimeout of server.Shutdown
  conn         \* the connections: position and response of each
sdVars == <<srv, budget, conn>>

VARIABLES
  kreq,        \* two login requests: the email and address as sent, and the
               \* limiter keys AuthenticateEmailPassword used for them
  lastLoggedOn, \* users.last_logged_on of one subject, NoDate = NULL
  upd          \* the authentications of that subject: position, and the
               \* time.Now() that UpdateLastLoggedOn took
auxVars == <<kreq, lastLoggedOn, upd>>

vars == <<rlVars, oaVars, tokVars, dirVars, mlVars, sdVars, auxVars>>

\* what the steps of each subsystem leave alone
notRL == <<oaVars, tokVars, dirVars, mlVars, sdVars, auxVars>>
notOA == <<rlVars, tokVars, dirVars, mlVars, sdVars, auxVars>>
notTok == <<rlVars, oaVars, dirVars, mlVars, sdVars, auxVars>>
notDir == <<rlVars, oaVars, tokVars, mlVars, sdVars, auxVars>>
notML == <<rlVars, oaVars, tokVars, dirVars, sdVars, auxVars>>
notSD == <<rlVars, oaVars, tokVars, dirVars, mlVars, auxVars>>
notAux == <<rlVars, oaVars, tokVars, dirVars, mlVars, sdVars>>

\* ------------------------------------------------------------- Redis keys
NoTTL == 0 - 1
NoKey == [val |-> 0, ttl |-> 0]

\* TTL key: -2 when the key is missing, else the remaining time
RedisTTL(ttl) == IF ttl = 0 THEN 0 - 2 ELSE ttl

\* GET key .Int(): redis.Nil leaves the zero value
RedisGetInt(k) == k.val

\* INCR key: a missing key is created as 1 without expiry
RedisIncr(k) == IF k.val = 0 THEN [val |-> 1, ttl |-> NoTTL]
                ELSE [k EXCEPT !.val = k.val + 1]

\* EXPIRE key d: no effect on a missing key
RedisExpire(k, d) == IF k.val = 0 THEN k ELSE [k EXCEPT !.ttl = d]

\* one tick of the store's clock on a key
RedisAge(k) == IF k.ttl = 1 THEN NoKey
               ELSE IF k.ttl > 1 THEN [k EXCEPT !.ttl = k.ttl - 1]
               ELSE k

\* ------------------------------------------------------------ rate limiter
LockedOut_m(ttl) == ttl > 1
\* CheckLoginAttempt: if ttl > 0
LockedOut(ttl) == ttl > 0

Exceeded_m(remaining) == remaining < 0
\* CheckLoginAttempt: remaining := l.maxAttempts - count; if remaining <= 0
Exceeded(remaining) == remaining <= 0

NoSnap == [sawLock |-> FALSE, sawFull |-> FALSE]
NoChk == [ret |-> FALSE, err |-> FALSE, allowed |-> FALSE, remaining |-> 0,
          lockoutRemaining |-> 0, sawLock |-> FALSE, sawFull |-> FALSE]

\* (allowed, remaining, lockoutRemaining, err) as CheckLoginAttempt returns it
ChkRet(allowed, remaining, lockoutRemaining, err, s) ==
  [ret |-> TRUE, err |-> err, allowed |-> allowed, remaining |-> remaining,
   lockoutRemaining |-> lockoutRemaining, sawLock |-> s.sawLock,
   sawFull |-> s.sawFull]

\* one login request: the failure of a store call of CheckLoginAttempt
\* ("err" when the error is returned, "del" when it is only printed), the
\* result of FindByEmail and VerifyPassword, the login_attempts rows it
\* inserted (their success column), its INCRs of the attempt counter, failures
\* of RecordFailedAttempt / RecordSuccessfulAttempt, UpdateLastLoggedOn and
\* FindWithMeta
NoAttempt == [chkFailed |-> "", cred |-> "", logged |-> FALSE, rows |-> <<>>,
              incrs |-> 0, recFailed |-> FALSE, upFailed |-> FALSE,
              metaFailed |-> FALSE]

Rejected_m(cred) == cred = "badpw"
\* AuthenticateEmailPassword: usr == nil and a failed VerifyPassword both
\* record the failure and return "invalid credentials"
Rejected(cred) == cred \in {"nouser", "badpw"}

BestEffort_m(ok) == ok
\* the error of RecordLoginAttempt is dropped and the error of
\* UpdateLastLoggedOn is printed: the login goes on whether the write
\* succeeded or not
BestEffort(ok) == TRUE

AfterCheck_m(err, allowed) == IF ~allowed THEN "done" ELSE "verify"
\* AuthenticateEmailPassword after CheckLoginAttempt: if err != nil the error
\* is printed and the login goes on; else if !allowed it returns an error
AfterCheck(err, allowed) == IF ~err /\ ~allowed THEN "done" ELSE "verify"

\* a limiter call fails: the failed credential checks are no longer counted
Uncounted(ok, g) == IF ok THEN g ELSE 0 - 1

\* FindByEmail and VerifyPassword: the directory fails, there is no subject
\* with the email, the password does not match the digest, or it does
Creds == {"dberr", "nouser", "badpw", "good"}

\* ------------------------------------------------------------ HTTP boundary
NoResp == [status |-> 0, code |-> "", retry_after_seconds |-> 0 - 1]

\* Handler.Login: every error of AuthenticateEmailPassword
LoginError == [status |-> 401, code |-> "INVALID_CREDENTIALS",
               retry_after_seconds |-> 0 - 1]

\* Handler.Login: response.Success
LoginOK == [status |-> 200, code |-> "", retry_after_seconds |-> 0 - 1]

\* ------------------------------------------------------------- JWT codec
\* A Go string is a sequence of bytes or code points; 255 stands for a byte
\* that is not valid UTF-8, 65533 for U+FFFD.
ValidUTF8(str) == \A i \in 1..Len(str) : str[i] # 255

\* json.Marshal of a string (SignedString marshals the claims): invalid
\* UTF-8 is replaced by U+FFFD; json.Unmarshal gives the encoded text back
JSONString(str) == [i \in 1..Len(str) |-> IF str[i] = 255 THEN 65533 ELSE str[i]]

NoDate == 0 - 1

RECURSIVE Itoa(_)
\* fmt.Sprintf("%d", n) for n >= 0
Itoa(n) == IF n < 10 THEN <<48 + n>> ELSE Itoa(n \div 10) \o <<48 + (n % 10)>>

\* jwt.NewNumericDate(t): t.Truncate(time.Second)
NewNumericDate(t) == (t \div Res) * Res

\* the signing methods the jwt package registers
SigningMethods == {"HS256", "HS384", "HS512", "RS256", "none"}

\* token.Method.(*jwt.SigningMethodHMAC)
IsSigningMethodHMAC(alg) == alg \in {"HS256", "HS384", "HS512"}

\* the signature of method alg with key over header and payload
Signature(alg, key) == [alg |-> alg, key |-> key]

ZeroInput == [user_id |-> 0, boddle_uid |-> <<>>, email |-> <<>>, name |-> <<>>,
              meta_type |-> <<>>, meta_id |-> 0]

\* the zero value of token.Claims
ZeroClaims == [user_id |-> 0, boddle_uid |-> <<>>, email |-> <<>>, name |-> <<>>,
               meta_type |-> <<>>, meta_id |-> 0, iss |-> "", sub |-> <<>>,
               exp |-> NoDate, iat |-> NoDate, nbf |-> NoDate, jti |-> 0]

\* a compact JWT: whether it has three decodable segments, the header's alg,
\* the JSON payload, and the signature
NoTok == [wf |-> FALSE, alg |-> "", payload |-> ZeroClaims,
          sig |-> Signature("", "")]

\* jwt.NewWithClaims(method, claims).SignedString(key)
SignedString(alg, claims, key) ==
  [wf |-> TRUE, alg |-> alg,
   payload |-> [claims EXCEPT !.boddle_uid = JSONString(@),
                              !.email = JSONString(@),
                              !.name = JSONString(@),
                              !.meta_type = JSONString(@)],
   sig |-> Signature(alg, key)]

Generate_m(in, t, c, j) ==
  LET accessClaims == [ZeroClaims EXCEPT
          !.user_id = in.user_id, !.boddle_uid = in.boddle_uid,
          !.email = in.email, !.name = in.name,
          !.meta_type = in.meta_type, !.meta_id = in.meta_id,
          !.exp = NewNumericDate(t + c.refreshTokenTTL),
          !.iat = NewNumericDate(t), !.nbf = NewNumericDate(t),
          !.iss = "boddle-auth-gateway", !.sub = Itoa(in.user_id), !.jti = j + 1]
      refreshClaims == [ZeroClaims EXCEPT
          !.exp = NewNumericDate(t + c.refreshTokenTTL),
          !.iat = NewNumericDate(t), !.nbf = NewNumericDate(t),
          !.iss = "boddle-auth-gateway", !.sub = Itoa(in.user_id), !.jti = j + 2]
  IN [access |-> SignedString("HS256", accessClaims, c.secretKey),
      refresh |-> SignedString("HS256", refreshClaims, c.refreshSecretKey),
      expires_at |-> t + c.refreshTokenTTL]
\* Service.Generate(userID, boddleUID, email, name, metaType, metaID) at time
\* t, for a service constructed with c, with j identifiers drawn before
Generate(in, t, c, j) ==
  LET accessClaims == [ZeroClaims EXCEPT
          !.user_id = in.user_id, !.boddle_uid = in.boddle_uid,
          !.email = in.email, !.name = in.name,
          !.meta_type = in.meta_type, !.meta_id = in.meta_id,
          !.exp = NewNumericDate(t + c.accessTokenTTL),
          !.iat = NewNumericDate(t), !.nbf = NewNumericDate(t),
          !.iss = "boddle-auth-gateway", !.sub = Itoa(in.user_id), !.jti = j + 1]
      refreshClaims == [ZeroClaims EXCEPT
          !.exp = NewNumericDate(t + c.refreshTokenTTL),
          !.iat = NewNumericDate(t), !.nbf = NewNumericDate(t),
          !.iss = "boddle-auth-gateway", !.sub = Itoa(in.user_id), !.jti = j + 2]
  IN [access |-> SignedString("HS256", accessClaims, c.secretKey),
      refresh |-> SignedString("HS256", refreshClaims, c.refreshSecretKey),
      expires_at |-> t + c.accessTokenTTL]

VerifyExpiresAt_m(exp, t) == exp = NoDate \/ t <= exp
\* the jwt validator on exp: absent, or now.Before(exp)
VerifyExpiresAt(exp, t) == exp = NoDate \/ t < exp

\* the jwt validator on nbf: absent, or !now.Before(nbf)
VerifyNotBefore(nbf, t) == nbf = NoDate \/ t >= nbf

ParseError(e) == [ok |-> FALSE, errs |-> e, claims |-> ZeroClaims]

\* the key function Validate and ValidateRefreshToken hand to the parser:
\* the secret for an HMAC method, "" for the error "unexpected signing method"
Keyfunc(alg, secret) == IF IsSigningMethodHMAC(alg) THEN secret ELSE ""

\* jwt.ParseWithClaims(tokenString, claims, keyFunc) at time t, for a
\* keyFunc that answers with the given secret
ParseWithClaims(tok, secret, t) ==
  IF ~tok.wf THEN ParseError({"ErrTokenMalformed"})
  ELSE IF tok.alg \notin SigningMethods THEN ParseError({"ErrTokenUnverifiable"})
  ELSE IF Keyfunc(tok.alg, secret) = "" THEN ParseError({"ErrTokenUnverifiable"})
  ELSE IF tok.sig # Signature(tok.alg, Keyfunc(tok.alg, secret))
  THEN ParseError({"ErrTokenSignatureInvalid"})
  ELSE LET errs ==
             (IF VerifyExpiresAt(tok.payload.exp, t) THEN {} ELSE {"ErrTokenExpired"})
             \cup
             (IF VerifyNotBefore(tok.payload.nbf, t) THEN {} ELSE {"ErrTokenNotValidYet"})
       IN IF errs # {} THEN ParseError(errs)
          ELSE [ok |-> TRUE, errs |-> {}, claims |-> tok.payload]

\* Service.Validate(tokenString) at time t
Validate(tok, c, t) == ParseWithClaims(tok, c.secretKey, t)

\* Service.ValidateRefreshToken(tokenString) at time t: the registered claims
ValidateRefreshToken(tok, c, t) ==
  LET r == ParseWithClaims(tok, c.refreshSecretKey, t)
  IN [r EXCEPT !.claims = [ZeroClaims EXCEPT
          !.iss = r.claims.iss, !.sub = r.claims.sub, !.exp = r.claims.exp,
          !.iat = r.claims.iat, !.nbf = r.claims.nbf, !.jti = r.claims.jti]]

\* the configurations NewService is called with
Configs ==
  [secretKey : {"k1"}, refreshSecretKey : {"k1", "k2"},
   accessTokenTTL : {2 * Res, 2 * Res + 1}, refreshTokenTTL : {4 * Res}]

\* arguments of Generate: "t@x" / "T U" / "Teacher", and a name with a byte
\* that is not UTF-8
Inputs ==
  { [user_id |-> 123, boddle_uid |-> <<49, 102>>, email |-> <<116, 64, 120>>,
     name |-> <<84, 32, 85>>, meta_type |-> <<84>>, meta_id |-> 456],
    [user_id |-> 7, boddle_uid |-> <<>>, email |-> <<115, 64, 120>>,
     name |-> <<74, 255>>, meta_type |-> <<83>>, meta_id |-> 8] }

\* tokens a client can make up: any header alg, nbf and exp, signed for the
\* declared alg with some key, or with a made-up signature
Crafted ==
  { [wf |-> TRUE, alg |-> a,
     payload |-> [ZeroClaims EXCEPT !.user_id = 123, !.sub = Itoa(123),
                                    !.nbf = n, !.exp = e],
     sig |-> Signature(IF own THEN a ELSE "HS256", k)] :
      a \in SigningMethods \cup {"XS256"}, own \in BOOLEAN,
      k \in {"k1", "k2", "bad"},
      n \in {NoDate, Res}, e \in {NoDate, 2 * Res} }
  \cup {NoTok}

NoPair == [access |-> NoTok, refresh |-> NoTok, expires_at |-> 0]
NoGen == [set |-> FALSE, in |-> ZeroInput, at |-> 0, pair |-> NoPair]
NoVres == [set |-> FALSE, svc |-> "", tok |-> NoTok, at |-> 0,
           res |-> ParseError({})]
NoSres == [op |-> "", hdr |-> "", jti |-> 0, exp |-> 0, again |-> FALSE,
           fallback |-> FALSE, queried |-> FALSE, revoked |-> FALSE,
           valid |-> FALSE, storeOk |-> TRUE, accepted |-> FALSE, status |-> 0,
           code |-> "", message |-> ""]

\* Service.Logout has validated the token and not yet called Blacklist.Add
LogoutPending(r) == r.op = "logout" /\ r.status = 0

JtiIds == 1..(2 * MaxGen)

\* ------------------------------------------------------------ login email
\* the emails a client sends: strings of up to MaxEmailLen characters
RawEmails == UNION {[1..n -> {"A", "a", "b", " "}] : n \in 0..MaxEmailLen}

\* the client addresses (c.ClientIP())
Addrs == {<<"1">>, <<"2">>}

\* strings.ToLower, character by character
ToLower(s) == [i \in 1..Len(s) |-> IF s[i] = "A" THEN "a" ELSE s[i]]

RECURSIVE TrimSpace(_)
\* strings.TrimSpace: the leading and trailing white space removed
TrimSpace(s) ==
  IF s # <<>> /\ Head(s) = " " THEN TrimSpace(Tail(s))
  ELSE IF s # <<>> /\ s[Len(s)] = " " THEN TrimSpace(SubSeq(s, 1, Len(s) - 1))
  ELSE s

SanitizeEmail_m(email) == TrimSpace(email)
\* SanitizeEmail
SanitizeEmail(email) == ToLower(TrimSpace(email))

\* fmt.Sprintf("ratelimit:login:%s:%s", ipAddress, email)
LoginAttemptKey(email, ipAddress) ==
  <<"ratelimit:login:">> \o ipAddress \o <<":">> \o email

\* fmt.Sprintf("ratelimit:lockout:%s:%s", ipAddress, email)
LoginLockoutKey(email, ipAddress) ==
  <<"ratelimit:lockout:">> \o ipAddress \o <<":">> \o email

\* the two logins that are compared
Sides == {1, 2}
NoKreq == [set |-> FALSE, raw |-> <<>>, ip |-> <<>>, attemptKey |-> <<>>,
           lockoutKey |-> <<>>]

\* an authentication that has not reached UpdateLastLoggedOn
NoUpd == [pc |-> "idle", t |-> NoDate, out |-> ""]

\* ------------------------------------------------------- initial states
NoCb == [pc |-> "idle", provider |-> "", state |-> 0, url |-> "", late |-> FALSE,
         exchanged |-> FALSE, out |-> ""]

InitRLVars ==
  /\ counter = NoKey
  /\ lockout = 0
  /\ pc = [p \in Procs |-> "idle"]
  /\ snap = [p \in Procs |-> NoSnap]
  /\ chk = [p \in Procs |-> NoChk]
  /\ resp = [p \in Procs |-> NoResp]
  /\ recorded = 0
  /\ attempt = [p \in Procs |-> NoAttempt]
  /\ guesses = 0

\* no state token has been issued, no callback is running
InitOAVars ==
  /\ oauthKeys = [s \in States |-> [ttl |-> 0, url |-> ""]]
  /\ nextState = 0
  /\ cb = [c \in Cbs |-> NoCb]
  /\ validated = [s \in States |-> 0]
  /\ issuedBy = [s \in States |-> ""]

\* the service is constructed at time 0; nothing is issued or revoked
InitTokVars ==
  /\ now = 0
  /\ cfg \in Configs
  /\ gen = NoGen
  /\ nextJti = 0
  /\ vres = NoVres
  /\ blacklist = [j \in JtiIds |-> 0]
  /\ loggedOut = {}
  /\ sres = NoSres

\* ------------------------------------------------------------ the directory
UserIds == 1..NumUsers
Subs == 1..NumSubs
Links == 1..NumLinks

\* users.meta_type of the subjects, in turn
MetaTypes == <<"Teacher", "Teacher", "Student", "Parent", "Admin">>
MetaTypeOf(u) == MetaTypes[((u - 1) % Len(MetaTypes)) + 1]

\* the role tables
Tables == {"Teacher", "Student", "Parent"}

\* the provider columns of the role tables; 0 is NULL
Columns == {"google_uid", "clever_uid", "icloud_uid"}
NoRole == [user_id |-> 0, google_uid |-> 0, clever_uid |-> 0, icloud_uid |-> 0]

Providers == {"google", "clever", "icloud"}

\* the column a provider's subject is kept in
Col(provider) ==
  CASE provider = "google" -> "google_uid"
    [] provider = "clever" -> "clever_uid"
    [] provider = "icloud" -> "icloud_uid"

ProviderTables_m(provider) ==
  IF provider = "icloud" THEN <<"Student", "Parent">>
  ELSE <<"Teacher", "Teacher">>
\* the tables findOrCreate...User searches by provider subject, in order
ProviderTables(provider) ==
  IF provider = "icloud" THEN <<"Student", "Parent">>
  ELSE <<"Teacher", "Student">>

Linkable_m(provider) == {"Teacher", "Student", "Parent"}
\* the cases of the switch on usr.MetaType that link
Linkable(provider) ==
  IF provider = "icloud" THEN {"Student", "Parent"} ELSE {"Teacher", "Student"}

\* SELECT ... FROM <table> WHERE <col> = sub: the keys of the matching rows
FindRoleByUID(rl, table, col, sub) ==
  {k \in DOMAIN rl : k[1] = table /\ rl[k][col] = sub}

FindByEmail_m(us, email) == DOMAIN us
\* SELECT ... FROM users WHERE email = $1: the ids of the matching rows
FindByEmail(us, email) == {u \in DOMAIN us : us[u].email = email}

\* the UNIQUE constraint on a provider column of one table: UPDATE of row k
\* to sub is rejected when another row of the table holds sub
UniqueViolation(rl, k, col, sub) ==
  \E k2 \in DOMAIN rl : k2 # k /\ k2[1] = k[1] /\ rl[k2][col] = sub

LinkEmail_m(email, verified) == IF verified THEN email ELSE 0
\* the email findOrCreate...User looks a subject up by: info.Email, whatever
\* info.EmailVerified says
LinkEmail(email, verified) == email

NoLink == [pc |-> "idle", provider |-> "", sub |-> 0, email |-> 0,
           verified |-> FALSE, tbl |-> 0,
           role |-> <<>>, usr |-> 0, by |-> "", out |-> "", cause |-> "",
           subject |-> 0, issued |-> FALSE, upFailed |-> FALSE,
           wrote |-> FALSE,
           seen |-> <<>>, conc |-> FALSE]

\* every subject has its email and, unless it is an Admin, its role record
Subjects ==
  [u \in UserIds |-> [email |-> u, meta_type |-> MetaTypeOf(u), meta_id |-> u]]

\* the role records with no provider subject linked
Unlinked ==
  [k \in {<<MetaTypeOf(u), u>> : u \in {v \in UserIds : MetaTypeOf(v) \in Tables}}
     |-> [NoRole EXCEPT !.user_id = k[2]]]

\* the same after the peer system, which shares the directory, has linked
\* the parents to Google subjects (parents.google_uid)
PeerLinked ==
  [k \in DOMAIN Unlinked |->
     IF k[1] = "Parent" THEN [Unlinked[k] EXCEPT !.google_uid = NumSubs]
     ELSE Unlinked[k]]

\* the directory the gateway is started on
InitDirVars ==
  /\ users = Subjects
  /\ roles = Unlinked
  /\ lk = [p \in Links |-> NoLink]

\* ------------------------------------------------------------- login tokens
TokenIds == 1..NumTokens
Reqs == 1..NumReqs

\* the rows of login_tokens when the gateway starts: the even ones permanent
LoginTokens0 ==
  [t \in TokenIds |->
     [present |-> TRUE, user_id |-> ((t - 1) % NumUsers) + 1,
      permanent |-> (t % 2 = 0), age |-> 0]]

\* SELECT ... FROM login_tokens WHERE secret = $1 (the secret of row t is t)
FindLoginToken(lt, secret) == {t \in DOMAIN lt : lt[t].present /\ t = secret}

TokenExpired_m(tok) == tok.age > LoginTokenTTL
\* !loginToken.Permanent && time.Now().After(CreatedAt.Add(5 * time.Minute))
TokenExpired(tok) == ~tok.permanent /\ tok.age > LoginTokenTTL

\* DELETE FROM login_tokens WHERE id = $1
DeleteLoginToken(lt, t) == [lt EXCEPT ![t].present = FALSE]

NoReq == [pc |-> "idle", secret |-> 0, tok |-> 0, late |-> FALSE, age |-> 0,
          out |-> "", cause |-> "", issued |-> FALSE, upFailed |-> FALSE,
          status |-> 0, code |-> ""]

InitMLVars ==
  /\ loginTokens = LoginTokens0
  /\ ml = [r \in Reqs |-> NoReq]
  /\ uses = [t \in TokenIds |-> 0]

\* ---------------------------------------------------------- the HTTP server
Conns == 1..NumConns
NoConn == [st |-> "idle", status |-> 0, late |-> FALSE]

InitSDVars ==
  /\ srv = "running"
  /\ budget = 0
  /\ conn = [c \in Conns |-> NoConn]
  /\ kreq = [i \in Sides |-> NoKreq]
  /\ lastLoggedOn = NoDate
  /\ upd = [r \in Reqs |-> NoUpd]

\* --------------------------------------------------------------- SpecRL
InitRL ==
  /\ InitRLVars /\ InitOAVars /\ InitTokVars /\ InitDirVars /\ InitMLVars /\ InitSDVars
  /\ cfg.refreshSecretKey # cfg.secretKey
  /\ cfg.accessTokenTTL % Res = 0

\* POST /auth/login arrives: Handler.Login calls AuthenticateEmailPassword
Login(p) ==
  /\ pc[p] \in {"idle", "done"}
  /\ pc' = [pc EXCEPT ![p] = "chk_ttl"]
  /\ snap' = [snap EXCEPT ![p] = NoSnap]
  /\ chk' = [chk EXCEPT ![p] = NoChk]
  /\ resp' = [resp EXCEPT ![p] = NoResp]
  /\ attempt' = [attempt EXCEPT ![p] = NoAttempt]
  /\ UNCHANGED <<counter, lockout, recorded, guesses>>
  /\ UNCHANGED notRL

\* CheckLoginAttempt: TTL lockoutKey
ChkTTL(p, ok) ==
  /\ pc[p] = "chk_ttl"
  /\ LET s == [sawLock |-> lockout > 0, sawFull |-> FALSE]
         ttl == RedisTTL(lockout)
     IN IF ~ok
        THEN \* error return; the service logs it and goes on to the login
             /\ chk' = [chk EXCEPT ![p] = ChkRet(FALSE, 0, 0, TRUE, s)]
             /\ pc' = [pc EXCEPT ![p] = AfterCheck(TRUE, FALSE)]
             /\ attempt' = [attempt EXCEPT ![p].chkFailed = "err"]
             /\ UNCHANGED <<snap, resp>>
        ELSE IF LockedOut(ttl)
        THEN /\ chk' = [chk EXCEPT ![p] = ChkRet(FALSE, 0, ttl, FALSE, s)]
             /\ resp' = [resp EXCEPT ![p] = LoginError]
             /\ pc' = [pc EXCEPT ![p] = "done"]
             /\ UNCHANGED <<snap, attempt>>
        ELSE /\ snap' = [snap EXCEPT ![p] = s]
             /\ pc' = [pc EXCEPT ![p] = "chk_get"]
             /\ UNCHANGED <<chk, resp, attempt>>
  /\ guesses' = Uncounted(ok, guesses)
  /\ UNCHANGED <<counter, lockout, recorded>>
  /\ UNCHANGED notRL

\* CheckLoginAttempt: GET attemptKey
ChkGet(p, ok) ==
  /\ pc[p] = "chk_get"
  /\ LET s == [snap[p] EXCEPT !.sawFull = recorded >= MaxAttempts]
         remaining == MaxAttempts - RedisGetInt(counter)
     IN IF ~ok
        THEN /\ chk' = [chk EXCEPT ![p] = ChkRet(FALSE, 0, 0, TRUE, s)]
             /\ pc' = [pc EXCEPT ![p] = AfterCheck(TRUE, FALSE)]
             /\ attempt' = [attempt EXCEPT ![p].chkFailed = "err"]
             /\ UNCHANGED snap
        ELSE IF Exceeded(remaining)
        THEN /\ snap' = [snap EXCEPT ![p] = s]
             /\ pc' = [pc EXCEPT ![p] = "chk_set"]
             /\ UNCHANGED <<chk, attempt>>
        ELSE /\ chk' = [chk EXCEPT ![p] = ChkRet(TRUE, remaining, 0, FALSE, s)]
             /\ pc' = [pc EXCEPT ![p] = AfterCheck(FALSE, TRUE)]
             /\ UNCHANGED <<snap, attempt>>
  /\ guesses' = Uncounted(ok, guesses)
  /\ UNCHANGED <<counter, lockout, resp, recorded>>
  /\ UNCHANGED notRL

\* CheckLoginAttempt: SET lockoutKey "1" EX lockoutDuration
ChkSet(p, ok) ==
  /\ pc[p] = "chk_set"
  /\ IF ~ok
     THEN /\ chk' = [chk EXCEPT ![p] = ChkRet(FALSE, 0, 0, TRUE, snap[p])]
          /\ pc' = [pc EXCEPT ![p] = AfterCheck(TRUE, FALSE)]
          /\ attempt' = [attempt EXCEPT ![p].chkFailed = "err"]
          /\ guesses' = 0 - 1
          /\ UNCHANGED lockout
     ELSE /\ lockout' = LockoutDuration
          /\ pc' = [pc EXCEPT ![p] = "chk_del"]
          /\ guesses' = 0
          /\ UNCHANGED <<chk, attempt>>
  /\ UNCHANGED <<counter, snap, resp, recorded>>
  /\ UNCHANGED notRL

\* CheckLoginAttempt: DEL attemptKey (an error is printed, not returned),
\* then return false, 0, lockoutDuration; the service returns its error
ChkDel(p, ok) ==
  /\ pc[p] = "chk_del"
  /\ counter' = IF ok THEN NoKey ELSE counter
  /\ recorded' = IF ok THEN 0 ELSE recorded
  /\ guesses' = IF ok THEN 0 ELSE 0 - 1
  /\ chk' = [chk EXCEPT ![p] = ChkRet(FALSE, 0, LockoutDuration, FALSE, snap[p])]
  /\ resp' = [resp EXCEPT ![p] = LoginError]
  /\ pc' = [pc EXCEPT ![p] = "done"]
  /\ attempt' = IF ok THEN attempt ELSE [attempt EXCEPT ![p].chkFailed = "del"]
  /\ UNCHANGED <<lockout, snap>>
  /\ UNCHANGED notRL

\* AuthenticateEmailPassword: FindByEmail and VerifyPassword
Verify(p, cred) ==
  /\ pc[p] = "verify"
  /\ chk' = [chk EXCEPT ![p] = NoChk]
  /\ snap' = [snap EXCEPT ![p] = NoSnap]
  /\ attempt' = [attempt EXCEPT ![p].cred = cred]
  /\ IF cred = "dberr"
     THEN /\ resp' = [resp EXCEPT ![p] = LoginError]
          /\ pc' = [pc EXCEPT ![p] = "done"]
          /\ UNCHANGED guesses
     ELSE /\ pc' = [pc EXCEPT ![p] = "log"]
          /\ guesses' = IF ~Rejected(cred) \/ guesses = MaxGuesses
                           \/ guesses < 0 \/ attempt[p].chkFailed # ""
                        THEN guesses ELSE guesses + 1
          /\ UNCHANGED resp
  /\ UNCHANGED <<counter, lockout, recorded>>
  /\ UNCHANGED notRL

\* AuthenticateEmailPassword: _ = RecordLoginAttempt(email, ip, success)
LogAttempt(p, ok) ==
  /\ pc[p] = "log"
  /\ attempt' = [attempt EXCEPT
                   ![p].rows = IF ok THEN Append(@, ~Rejected(attempt[p].cred))
                               ELSE @,
                   ![p].logged = TRUE]
  /\ pc' = [pc EXCEPT ![p] = IF ~BestEffort(ok) THEN "done"
                             ELSE IF Rejected(attempt[p].cred) THEN "rec_incr"
                             ELSE "succ_del"]
  /\ resp' = IF BestEffort(ok) THEN resp ELSE [resp EXCEPT ![p] = LoginError]
  /\ UNCHANGED <<counter, lockout, snap, chk, recorded, guesses>>
  /\ UNCHANGED notRL

\* RecordFailedAttempt: INCR attemptKey
RecIncr(p, ok) ==
  /\ pc[p] = "rec_incr"
  /\ ok => counter.val < MaxCount
  /\ IF ~ok
     THEN /\ resp' = [resp EXCEPT ![p] = LoginError]
          /\ pc' = [pc EXCEPT ![p] = "done"]
          /\ attempt' = [attempt EXCEPT ![p].recFailed = TRUE]
          /\ UNCHANGED <<counter, recorded>>
     ELSE /\ counter' = RedisIncr(counter)
          /\ recorded' = recorded + 1
          /\ attempt' = [attempt EXCEPT ![p].incrs = @ + 1]
          /\ IF counter'.val = 1
             THEN /\ pc' = [pc EXCEPT ![p] = "rec_expire"]
                  /\ UNCHANGED resp
             ELSE /\ resp' = [resp EXCEPT ![p] = LoginError]
                  /\ pc' = [pc EXCEPT ![p] = "done"]
  /\ guesses' = Uncounted(ok, guesses)
  /\ UNCHANGED <<lockout, snap, chk>>
  /\ UNCHANGED notRL

\* RecordFailedAttempt: EXPIRE attemptKey window, on the first attempt
RecExpire(p, ok) ==
  /\ pc[p] = "rec_expire"
  /\ counter' = IF ok THEN RedisExpire(counter, Window) ELSE counter
  /\ resp' = [resp EXCEPT ![p] = LoginError]
  /\ pc' = [pc EXCEPT ![p] = "done"]
  /\ attempt' = IF ok THEN attempt ELSE [attempt EXCEPT ![p].recFailed = TRUE]
  /\ guesses' = Uncounted(ok, guesses)
  /\ UNCHANGED <<lockout, snap, chk, recorded>>
  /\ UNCHANGED notRL

\* RecordSuccessfulAttempt: DEL attemptKey (its error is dropped), then
\* UpdateLastLoggedOn (its error is printed), FindWithMeta, Generate
SuccDel(p, ok, upok, metaok) ==
  /\ pc[p] = "succ_del"
  /\ counter' = IF ok THEN NoKey ELSE counter
  /\ recorded' = IF ok THEN 0 ELSE recorded
  /\ guesses' = IF ok THEN 0 ELSE 0 - 1
  /\ resp' = [resp EXCEPT ![p] = IF metaok /\ BestEffort(upok) THEN LoginOK
                                 ELSE LoginError]
  /\ pc' = [pc EXCEPT ![p] = "done"]
  /\ attempt' = [attempt EXCEPT ![p].recFailed = ~ok, ![p].upFailed = ~upok,
                                ![p].metaFailed = ~metaok]
  /\ UNCHANGED <<lockout, snap, chk>>
  /\ UNCHANGED notRL

\* the store's clock: TTLs run down, expired keys vanish
TickRL ==
  /\ counter' = RedisAge(counter)
  /\ recorded' = IF RedisAge(counter) = NoKey THEN 0 ELSE recorded
  /\ guesses' = IF counter # NoKey /\ RedisAge(counter) = NoKey THEN 0
                ELSE guesses
  /\ lockout' = IF lockout > 0 THEN lockout - 1 ELSE 0
  /\ UNCHANGED <<pc, snap, chk, resp, attempt>>
  /\ UNCHANGED notRL

NextRL ==
  \/ \E p \in Procs : Login(p)
  \/ \E p \in Procs, ok \in BOOLEAN : ChkTTL(p, ok)
  \/ \E p \in Procs, ok \in BOOLEAN : ChkGet(p, ok)
  \/ \E p \in Procs, ok \in BOOLEAN : ChkSet(p, ok)
  \/ \E p \in Procs, ok \in BOOLEAN : ChkDel(p, ok)
  \/ \E p \in Procs, cred \in Creds : Verify(p, cred)
  \/ \E p \in Procs, ok \in BOOLEAN : LogAttempt(p, ok)
  \/ \E p \in Procs, ok \in BOOLEAN : RecIncr(p, ok)
  \/ \E p \in Procs, ok \in BOOLEAN : RecExpire(p, ok)
  \/ \E p \in Procs, ok \in BOOLEAN, upok \in BOOLEAN, metaok \in BOOLEAN :
       SuccDel(p, ok, upok, metaok)
  \/ TickRL

SpecRL == InitRL /\ [][NextRL]_vars

\* C1: once MaxAttempts failed logins have been recorded in the attempt
\* counter's window, a CheckLoginAttempt that the store answers is denied and
\* starts the lockout with lockoutRemaining = LockoutDuration; and every
\* CheckLoginAttempt that begins while the lockout marker exists and that the
\* store answers is denied with 0 < lockoutRemaining <= LockoutDuration.
C1_Lockout ==
  \A p \in Procs :
    (chk[p].ret /\ ~chk[p].err) =>
      /\ chk[p].sawFull =>
           (~chk[p].allowed /\ chk[p].lockoutRemaining = LockoutDuration)
      /\ chk[p].sawLock =>
           /\ ~chk[p].allowed
           /\ chk[p].lockoutRemaining > 0
           /\ chk[p].lockoutRemaining <= LockoutDuration
      /\ ~chk[p].allowed => (pc[p] = "done" /\ resp[p].status # 200)

\* one request was refused on reaching the limit, another one later, during
\* the lockout
C1_Witness ==
  \E p, q \in Procs :
    /\ p # q
    /\ chk[p].ret /\ ~chk[p].err /\ chk[p].sawFull /\ ~chk[p].allowed
    /\ chk[q].ret /\ ~chk[q].err /\ chk[q].sawLock /\ ~chk[q].allowed
    /\ chk[q].lockoutRemaining < LockoutDuration
    /\ lockout > 0

\* C2: the lockout marker and the attempt counter never exist at the same
\* time.
C2_NeverCoexist == ~(lockout > 0 /\ counter.val > 0)

\* C7: a login that the rate limiter denies is answered 429 RATE_LIMITED with
\* retry_after_seconds equal to the remaining lockout time.
C7_RateLimited429 ==
  \A p \in Procs :
    (pc[p] = "done" /\ chk[p].ret /\ ~chk[p].err /\ ~chk[p].allowed) =>
      /\ resp[p].status = 429
      /\ resp[p].code = "RATE_LIMITED"
      /\ resp[p].retry_after_seconds = chk[p].lockoutRemaining
      /\ resp[p].retry_after_seconds <= LockoutDuration

\* C12: a successful password authentication leaves the attempt counter
\* absent; the failed attempt that then creates the counter leaves it at 1
\* with a TTL of Window and sets no lockout marker.
C12_ResetOnSuccess ==
  [][\A p \in Procs :
       /\ (pc[p] = "succ_del" /\ resp'[p].status = 200) => counter' = NoKey
       /\ (pc[p] = "rec_incr" /\ counter = NoKey /\ counter' # counter) =>
            (counter'.val = 1 /\ lockout' = lockout)
       /\ (pc[p] = "rec_expire" /\ pc'[p] = "done" /\ counter.val = 1) =>
            counter'.ttl = Window]_vars

\* what AuthenticateEmailPassword and Handler.Login answer for the result of
\* FindByEmail, VerifyPassword and FindWithMeta when the attempt counter is
\* empty and there is no lockout
LoginOutcome(a) == IF a.cred = "good" /\ ~a.metaFailed THEN LoginOK ELSE LoginError

\* C21 as stated: when any store call of CheckLoginAttempt,
\* RecordFailedAttempt or RecordSuccessfulAttempt fails, the login goes on to
\* the credential check and is answered as with an empty counter and no
\* lockout.
C21_FailOpenAny ==
  \A p \in Procs :
    (pc[p] = "done" /\ (attempt[p].chkFailed # "" \/ attempt[p].recFailed)) =>
      (attempt[p].cred # "" /\ resp[p] = LoginOutcome(attempt[p]))

\* C21: when a store call whose error CheckLoginAttempt returns (TTL, GET or
\* SET) fails, or a store call of RecordFailedAttempt or
\* RecordSuccessfulAttempt fails, the login goes on to the credential check
\* and is answered as with an empty counter and no lockout; a failure of the
\* DEL that follows the SET of the lockout marker leaves the login denied.
C21_FailOpen ==
  \A p \in Procs :
    /\ (pc[p] = "done" /\ (attempt[p].chkFailed = "err" \/ attempt[p].recFailed)) =>
         (attempt[p].cred # "" /\ resp[p] = LoginOutcome(attempt[p]))
    /\ (pc[p] = "done" /\ attempt[p].chkFailed = "del") =>
         (attempt[p].cred = "" /\ resp[p] = LoginError)

\* during a lockout a login whose CheckLoginAttempt met a store error was
\* answered 200, and another one INVALID_CREDENTIALS
C21_Witness ==
  \E p, q \in Procs :
    /\ lockout > 0
    /\ pc[p] = "done" /\ attempt[p].chkFailed = "err"
    /\ attempt[p].cred = "good" /\ resp[p] = LoginOK
    /\ pc[q] = "done" /\ attempt[q].chkFailed = "err"
    /\ attempt[q].cred = "badpw" /\ resp[q] = LoginError

\* C25: a password login for an email with no subject and one with a wrong
\* password are both answered INVALID_CREDENTIALS, and each inserts one
\* login_attempts row with success = false and increments the attempt counter
\* once (when the directory and the store take the writes).
C25_Indistinguishable ==
  /\ \A p \in Procs :
       (pc[p] = "done" /\ attempt[p].cred \in {"nouser", "badpw"}) =>
         /\ resp[p] = LoginError
         /\ attempt[p].rows \in {<<>>, <<FALSE>>}
         /\ attempt[p].incrs \in {0, 1}
         /\ (attempt[p].incrs = 0) => attempt[p].recFailed
  /\ \A p, q \in Procs :
       (/\ pc[p] = "done" /\ attempt[p].cred = "nouser"
        /\ pc[q] = "done" /\ attempt[q].cred = "badpw"
        /\ (attempt[p].rows = <<>>) = (attempt[q].rows = <<>>)
        /\ (attempt[p].incrs = 0) = (attempt[q].incrs = 0)) =>
         /\ resp[p] = resp[q]
         /\ attempt[p].rows = attempt[q].rows
         /\ attempt[p].incrs = attempt[q].incrs

\* one login found no subject, another one a wrong password: both were
\* answered INVALID_CREDENTIALS after one row and one increment each
C25_Witness ==
  \E p, q \in Procs :
    /\ pc[p] = "done" /\ attempt[p].cred = "nouser"
    /\ pc[q] = "done" /\ attempt[q].cred = "badpw"
    /\ resp[p] = LoginError /\ resp[q] = LoginError
    /\ attempt[p].rows = <<FALSE>> /\ attempt[q].rows = <<FALSE>>
    /\ attempt[p].incrs = 1 /\ attempt[q].incrs = 1
    /\ counter.val = 2

\* C30: while every limiter call succeeds, at most MaxAttempts failed
\* credential checks are made between two resets of the attempt counter (a
\* success, a lockout, the expiry of the window).
C30_BoundedGuessing == guesses <= MaxAttempts

\* C36: whenever the attempt counter exists, and no RecordFailedAttempt is
\* between its INCR and its EXPIRE, the counter carries an expiry of at most
\* Window: no sequence of operations or store errors leaves a counter
\* without an expiry.
C36_FixedWindow ==
  (counter.val > 0 /\ \A p \in Procs : pc[p] # "rec_expire") =>
    (counter.ttl >= 1 /\ counter.ttl <= Window)

\* C37: a login that CheckLoginAttempt denies because the lockout marker
\* exists changes nothing: the request ends there with the login error, with
\* no directory lookup and no password check, no attempt-log row, no
\* increment of the counter and no change of the marker's TTL.
C37_LockedFrame ==
  /\ [][\A p \in Procs :
          ( /\ pc[p] = "chk_ttl" /\ pc'[p] # "chk_ttl"
            /\ lockout > 0
            /\ attempt'[p].chkFailed # "err" )
          => ( /\ pc'[p] = "done"
               /\ resp'[p] = LoginError
               /\ attempt'[p] = NoAttempt
               /\ counter' = counter
               /\ lockout' = lockout
               /\ recorded' = recorded )]_vars
  /\ [](\A p \in Procs :
          (pc[p] = "done" /\ chk[p].ret /\ chk[p].sawLock /\ ~chk[p].err) =>
            ( /\ attempt[p].cred = "" /\ ~attempt[p].logged
              /\ attempt[p].rows = <<>> /\ attempt[p].incrs = 0
              /\ resp[p] = LoginError ))

\* a login has been denied in the last instant of the lockout, with the
\* attempt counter still there, and left both as they were
C37_Witness ==
  \E p \in Procs :
    /\ pc[p] = "done" /\ chk[p].ret /\ chk[p].sawLock /\ ~chk[p].err
    /\ chk[p].lockoutRemaining = 1
    /\ lockout = 1
    /\ counter.val > 0
    /\ attempt[p] = NoAttempt
    /\ resp[p] = LoginError

\* ---------------------------------------------------------------- SpecKeys
\* POST /auth/login with email raw from address ip: AuthenticateEmailPassword
\* sanitizes the email and CheckLoginAttempt builds its two keys from it
KeysOf(i, raw, ip) ==
  /\ ~kreq[i].set
  /\ kreq' = [kreq EXCEPT ![i] =
       [set |-> TRUE, raw |-> raw, ip |-> ip,
        attemptKey |-> LoginAttemptKey(SanitizeEmail(raw), ip),
        lockoutKey |-> LoginLockoutKey(SanitizeEmail(raw), ip)]]
  /\ UNCHANGED <<lastLoggedOn, upd>>
  /\ UNCHANGED notAux

NextKeys == \E i \in Sides, raw \in RawEmails, ip \in Addrs : KeysOf(i, raw, ip)

SpecKeys == InitRL /\ [][NextKeys]_vars

\* two characters that are the same letter in either case
SameLetter(c, d) == c = d \/ {c, d} = {"A", "a"}

\* the emails a and b differ only in letter case and in white space around
\* them: with some white space cut off both ends of each, what is left has
\* the same letters in the same places
SameSpelling(a, b) ==
  \E la, ra \in 0..Len(a), lb, rb \in 0..Len(b) :
    /\ la + ra <= Len(a) /\ lb + rb <= Len(b)
    /\ \A k \in 1..Len(a) : (k <= la \/ k > Len(a) - ra) => a[k] = " "
    /\ \A k \in 1..Len(b) : (k <= lb \/ k > Len(b) - rb) => b[k] = " "
    /\ Len(a) - la - ra = Len(b) - lb - rb
    /\ \A k \in 1..(Len(a) - la - ra) : SameLetter(a[la + k], b[lb + k])

\* C38: two logins from one address whose emails differ only in letter case
\* or in the white space around them use the same attempt counter and the
\* same lockout marker.
C38_SameKey ==
  \A i, j \in Sides :
    ( /\ kreq[i].set /\ kreq[j].set
      /\ kreq[i].ip = kreq[j].ip
      /\ SameSpelling(kreq[i].raw, kreq[j].raw) )
    => ( /\ kreq[i].attemptKey = kreq[j].attemptKey
         /\ kreq[i].lockoutKey = kreq[j].lockoutKey )

\* " A " and "a" from the same address have been given the same keys
C38_Witness ==
  /\ kreq[1].set /\ kreq[2].set
  /\ kreq[1].raw = <<" ", "A", " ">>
  /\ kreq[2].raw = <<"a">>
  /\ kreq[1].ip = kreq[2].ip
  /\ kreq[1].attemptKey = kreq[2].attemptKey
  /\ kreq[1].lockoutKey = kreq[2].lockoutKey

\* ---------------------------------------------------------------- SpecLast
\* an authentication of the subject has succeeded (password, login token or
\* OAuth): UpdateLastLoggedOn evaluates time.Now() for the UPDATE it sends
TakeTime(r) ==
  /\ upd[r].pc = "idle"
  /\ upd' = [upd EXCEPT ![r] = [pc |-> "exec", t |-> now, out |-> ""]]
  /\ UNCHANGED <<kreq, lastLoggedOn>>
  /\ UNCHANGED notAux

\* UpdateLastLoggedOn: the directory runs
\* UPDATE users SET last_logged_on = $1 WHERE id = $2, or fails
ExecUpdate(r, ok) ==
  /\ upd[r].pc = "exec"
  /\ lastLoggedOn' = IF ok THEN upd[r].t ELSE lastLoggedOn
  /\ upd' = [upd EXCEPT ![r] = [NoUpd EXCEPT !.out = "ok"]]
  /\ UNCHANGED kreq
  /\ UNCHANGED notAux

\* an authentication of the subject fails: every Authenticate... returns
\* before it calls UpdateLastLoggedOn
AuthFails(r) ==
  /\ upd[r].pc = "idle"
  /\ upd[r].out # "failed"
  /\ upd' = [upd EXCEPT ![r] = [NoUpd EXCEPT !.out = "failed"]]
  /\ UNCHANGED <<kreq, lastLoggedOn>>
  /\ UNCHANGED notAux

\* the clock
TickLast ==
  /\ now < MaxTime
  /\ now' = now + 1
  /\ UNCHANGED <<cfg, gen, nextJti, vres, blacklist, loggedOut, sres>>
  /\ UNCHANGED <<rlVars, oaVars, dirVars, mlVars, sdVars, auxVars>>

NextLast ==
  \/ \E r \in Reqs : TakeTime(r)
  \/ \E r \in Reqs, ok \in BOOLEAN : ExecUpdate(r, ok)
  \/ \E r \in Reqs : AuthFails(r)
  \/ TickLast

SpecLast == InitRL /\ [][NextLast]_vars

\* C40: last_logged_on of a subject never decreases, in any sequence or
\* interleaving of its successful authentications, and a failed
\* authentication leaves it as it was.
C40_Monotonic ==
  [][ /\ lastLoggedOn' >= lastLoggedOn
      /\ (\E r \in Reqs : upd'[r].out = "failed" /\ upd[r].out # "failed")
           => lastLoggedOn' = lastLoggedOn ]_vars

\* -------------------------------------------------------------- SpecOAuth
\* the gateway as deployed: independent secrets, a lifetime in whole seconds
InitOAuth ==
  /\ InitRLVars /\ InitOAVars /\ InitTokVars /\ InitDirVars /\ InitMLVars /\ InitSDVars
  /\ cfg.refreshSecretKey # cfg.secretKey
  /\ cfg.accessTokenTTL % Res = 0

\* {Google,Clever,iCloud}Service.GetAuthURL: GenerateState draws a fresh
\* token, SaveState of the one StateManager the three services share stores
\* it with the redirect URL (SET oauth:state:{state} url EX ttl)
GetAuthURL(provider, url, ok) ==
  /\ nextState < NumStates
  /\ nextState' = nextState + 1
  /\ issuedBy' = [issuedBy EXCEPT ![nextState + 1] = provider]
  /\ oauthKeys' = IF ok
                  THEN [oauthKeys EXCEPT ![nextState + 1] =
                          [ttl |-> StateTTL, url |-> url]]
                  ELSE oauthKeys
  /\ UNCHANGED <<cb, validated>>
  /\ UNCHANGED notOA

\* GET /auth/{provider}/callback?code=&state= arrives with a state token the
\* gateway has handed out: AuthenticateWithGoogle calls HandleCallback
Callback(c, provider, s) ==
  /\ cb[c].pc = "idle"
  /\ s <= nextState
  /\ cb' = [cb EXCEPT ![c] = [NoCb EXCEPT !.pc = "vs_get", !.state = s,
                                          !.provider = provider,
                                          !.late = validated[s] > 0]]
  /\ UNCHANGED <<oauthKeys, nextState, validated, issuedBy>>
  /\ UNCHANGED notOA

\* ValidateState: GET key; redis.Nil is "invalid or expired state token"
VsGet(c, ok) ==
  /\ cb[c].pc = "vs_get"
  /\ LET k == oauthKeys[cb[c].state]
     IN cb' = [cb EXCEPT ![c] =
                 IF ~ok THEN [@ EXCEPT !.pc = "done", !.out = "STATE_ERROR"]
                 ELSE IF k.ttl = 0
                 THEN [@ EXCEPT !.pc = "done", !.out = "BAD_STATE"]
                 ELSE [@ EXCEPT !.pc = "vs_del", !.url = k.url]]
  /\ UNCHANGED <<oauthKeys, nextState, validated, issuedBy>>
  /\ UNCHANGED notOA

\* ValidateState: _ = DEL key, return redirectURL
VsDel(c, ok) ==
  /\ cb[c].pc = "vs_del"
  /\ oauthKeys' = IF ok
                  THEN [oauthKeys EXCEPT ![cb[c].state] = [ttl |-> 0, url |-> ""]]
                  ELSE oauthKeys
  /\ validated' = [validated EXCEPT ![cb[c].state] = @ + 1]
  /\ cb' = [cb EXCEPT ![c].pc = "exchange"]
  /\ UNCHANGED <<nextState, issuedBy>>
  /\ UNCHANGED notOA

\* HandleCallback: config.Exchange(ctx, code)
Exchange(c, ok) ==
  /\ cb[c].pc = "exchange"
  /\ cb' = [cb EXCEPT ![c] =
              IF ok THEN [@ EXCEPT !.pc = "fetch", !.exchanged = TRUE]
              ELSE [@ EXCEPT !.pc = "done", !.exchanged = TRUE,
                             !.out = "EXCHANGE_FAILED"]]
  /\ UNCHANGED <<oauthKeys, nextState, validated, issuedBy>>
  /\ UNCHANGED notOA

\* HandleCallback: fetchUserInfo
FetchUserInfo(c, ok) ==
  /\ cb[c].pc = "fetch"
  /\ cb' = [cb EXCEPT ![c] =
              IF ok THEN [@ EXCEPT !.pc = "link"]
              ELSE [@ EXCEPT !.pc = "done", !.out = "PROFILE_FAILED"]]
  /\ UNCHANGED <<oauthKeys, nextState, validated, issuedBy>>
  /\ UNCHANGED notOA

\* AuthenticateWithGoogle: findOrCreateGoogleUser, then Generate
LinkUser(c, ok) ==
  /\ cb[c].pc = "link"
  /\ cb' = [cb EXCEPT ![c] =
              IF ok THEN [@ EXCEPT !.pc = "done", !.out = "OK"]
              ELSE [@ EXCEPT !.pc = "done", !.out = "LINK_FAILED"]]
  /\ UNCHANGED <<oauthKeys, nextState, validated, issuedBy>>
  /\ UNCHANGED notOA

\* the store's clock: state tokens expire
TickOAuth ==
  /\ oauthKeys' = [s \in States |->
                     IF oauthKeys[s].ttl > 1
                     THEN [oauthKeys[s] EXCEPT !.ttl = @ - 1]
                     ELSE [ttl |-> 0, url |-> ""]]
  /\ UNCHANGED <<nextState, cb, validated, issuedBy>>
  /\ UNCHANGED notOA

NextOAuth ==
  \/ \E provider \in Providers, url \in {"/", "/home"}, ok \in BOOLEAN :
       GetAuthURL(provider, url, ok)
  \/ \E c \in Cbs, provider \in Providers, s \in States :
       Callback(c, provider, s)
  \/ \E c \in Cbs, ok \in BOOLEAN : VsGet(c, ok)
  \/ \E c \in Cbs, ok \in BOOLEAN : VsDel(c, ok)
  \/ \E c \in Cbs, ok \in BOOLEAN : Exchange(c, ok)
  \/ \E c \in Cbs, ok \in BOOLEAN : FetchUserInfo(c, ok)
  \/ \E c \in Cbs, ok \in BOOLEAN : LinkUser(c, ok)
  \/ TickOAuth

SpecOAuth == InitOAuth /\ [][NextOAuth]_vars

\* C3: of the callbacks that carry the same state token, at most one passes
\* state validation.
C3_AtMostOnePasses == \A s \in States : validated[s] <= 1

\* C4: a callback that arrives after another callback has passed validation
\* of the same state token does not pass validation: it fails at the lookup,
\* before any code exchange.
C4_SingleUse ==
  \A c \in Cbs :
    cb[c].late =>
      /\ cb[c].pc \in {"vs_get", "done"}
      /\ cb[c].out \in {"", "BAD_STATE", "STATE_ERROR"}
      /\ ~cb[c].exchanged

\* C34: a state token is bound to the provider whose GetAuthURL stored it:
\* presented to the callback of another provider it does not pass state
\* validation (the lookup fails) and is not consumed.
C34_ProviderBound ==
  \A c \in Cbs :
    (cb[c].pc # "idle" /\ cb[c].provider # issuedBy[cb[c].state]) =>
      /\ cb[c].pc \in {"vs_get", "done"}
      /\ cb[c].out \in {"", "BAD_STATE", "STATE_ERROR"}
      /\ ~cb[c].exchanged

\* -------------------------------------------------- SpecCodec, SpecSession
InitTok == InitRLVars /\ InitOAVars /\ InitTokVars /\ InitDirVars /\ InitMLVars /\ InitSDVars

\* a successful authentication issues a token pair
GenerateTokens(in) ==
  /\ nextJti < 2 * MaxGen
  /\ ~LogoutPending(sres)
  /\ gen' = [set |-> TRUE, in |-> in, at |-> now,
             pair |-> Generate(in, now, cfg, nextJti)]
  /\ nextJti' = nextJti + 2
  /\ vres' = NoVres
  /\ sres' = NoSres
  /\ UNCHANGED <<now, cfg, blacklist, loggedOut>>
  /\ UNCHANGED notTok

\* the tokens presented to the gateway: the issued pair and made-up ones
Presented == {gen.pair.access, gen.pair.refresh} \cup Crafted

\* Service.Validate is called with a token; the caller holds the result
\* until the clock or the issuer moves on
CallValidate(tok) ==
  /\ ~vres.set
  /\ vres' = [set |-> TRUE, svc |-> "access", tok |-> tok, at |-> now,
              res |-> Validate(tok, cfg, now)]
  /\ sres' = NoSres
  /\ UNCHANGED <<now, cfg, gen, nextJti, blacklist, loggedOut>>
  /\ UNCHANGED notTok

\* Service.ValidateRefreshToken is called with a token
CallValidateRefresh(tok) ==
  /\ ~vres.set
  /\ vres' = [set |-> TRUE, svc |-> "refresh", tok |-> tok, at |-> now,
              res |-> ValidateRefreshToken(tok, cfg, now)]
  /\ sres' = NoSres
  /\ UNCHANGED <<now, cfg, gen, nextJti, blacklist, loggedOut>>
  /\ UNCHANGED notTok

\* a service constructed with another secret validates the issued access
\* token (TestService_ValidateWrongSecret)
CallValidateOther(key) ==
  /\ ~vres.set
  /\ gen.set
  /\ key # cfg.secretKey
  /\ vres' = [set |-> TRUE, svc |-> "other", tok |-> gen.pair.access, at |-> now,
              res |-> Validate(gen.pair.access,
                               [cfg EXCEPT !.secretKey = key], now)]
  /\ sres' = NoSres
  /\ UNCHANGED <<now, cfg, gen, nextJti, blacklist, loggedOut>>
  /\ UNCHANGED notTok

\* the clock: time.Now() advances and the store's TTLs run down
TickTok ==
  /\ now < MaxTime
  /\ now' = now + 1
  /\ blacklist' = [j \in JtiIds |-> IF blacklist[j] > 0 THEN blacklist[j] - 1 ELSE 0]
  /\ vres' = NoVres
  /\ sres' = IF LogoutPending(sres) THEN sres ELSE NoSres
  /\ UNCHANGED <<cfg, gen, nextJti, loggedOut>>
  /\ UNCHANGED notTok

NextCodec ==
  \/ \E in \in Inputs : GenerateTokens(in)
  \/ \E tok \in Presented : CallValidate(tok)
  \/ \E tok \in Presented : CallValidateRefresh(tok)
  \/ \E key \in {"k2", "k3"} : CallValidateOther(key)
  \/ TickTok

SpecCodec == InitTok /\ [][NextCodec]_vars

\* the token is HS256-signed with the access secret
CorrectlySigned(tok) ==
  tok.wf /\ tok.alg = "HS256" /\ tok.sig = Signature("HS256", cfg.secretKey)

\* C8: Validate and ValidateRefreshToken reject every token whose header
\* algorithm is not HS256.
C8_OnlyHS256 ==
  (vres.set /\ vres.svc \in {"access", "refresh"} /\ vres.tok.alg # "HS256")
    => ~vres.res.ok

\* the claim values Validate returned, as the arguments of Generate
ClaimValues(c) ==
  [user_id |-> c.user_id, boddle_uid |-> c.boddle_uid, email |-> c.email,
   name |-> c.name, meta_type |-> c.meta_type, meta_id |-> c.meta_id]

InputValidUTF8(in) ==
  /\ ValidUTF8(in.boddle_uid) /\ ValidUTF8(in.email)
  /\ ValidUTF8(in.name) /\ ValidUTF8(in.meta_type)

ValidatedIssued(svc) ==
  vres.set /\ gen.set /\ vres.svc = svc /\ vres.tok = gen.pair.access

\* C9 as stated: for every claim set and every lifetime T, Validate of the
\* issued access token before its exp returns exactly the claim values given
\* to Generate with a non-empty jti, exp - iat = T, and Validate with another
\* secret fails.
C9_RoundTripAny ==
  /\ gen.set =>
       gen.pair.access.payload.exp - gen.pair.access.payload.iat
         = cfg.accessTokenTTL
  /\ (ValidatedIssued("access") /\ vres.at < gen.pair.access.payload.exp) =>
       /\ vres.res.ok
       /\ ClaimValues(vres.res.claims) = gen.in
       /\ vres.res.claims.jti # 0
  /\ ValidatedIssued("other") => ~vres.res.ok

\* C9 (amended): the same for claim sets whose strings are valid UTF-8 and
\* for lifetimes T of a whole number of seconds; for any claim set and T,
\* Validate before exp succeeds with a non-empty jti and Validate with
\* another secret fails.
C9_RoundTrip ==
  /\ (gen.set /\ cfg.accessTokenTTL % Res = 0) =>
       gen.pair.access.payload.exp - gen.pair.access.payload.iat
         = cfg.accessTokenTTL
  /\ (ValidatedIssued("access") /\ vres.at < gen.pair.access.payload.exp) =>
       /\ vres.res.ok
       /\ InputValidUTF8(gen.in) => ClaimValues(vres.res.claims) = gen.in
       /\ vres.res.claims.jti # 0
  /\ ValidatedIssued("other") => ~vres.res.ok

\* an issued token with UTF-8 claims and a whole-second lifetime was
\* validated some time after it was issued, and came back as given
C9_Witness ==
  /\ ValidatedIssued("access")
  /\ vres.at > gen.at
  /\ vres.res.ok
  /\ InputValidUTF8(gen.in)
  /\ cfg.accessTokenTTL % Res = 0
  /\ ClaimValues(vres.res.claims) = gen.in
  /\ vres.res.claims.exp - vres.res.claims.iat = cfg.accessTokenTTL

\* C10: Validate accepts a correctly signed token exactly while
\* nbf <= now < exp; with exp <= now it fails as expired, with nbf > now as
\* not yet valid.
C10_Expiry ==
  (vres.set /\ vres.svc = "access" /\ CorrectlySigned(vres.tok)) =>
    LET p == vres.tok.payload
    IN /\ (p.exp # NoDate /\ p.exp <= vres.at) =>
            (~vres.res.ok /\ "ErrTokenExpired" \in vres.res.errs)
       /\ (p.nbf # NoDate /\ p.nbf > vres.at) =>
            (~vres.res.ok /\ "ErrTokenNotValidYet" \in vres.res.errs)
       /\ (p.exp # NoDate /\ p.nbf # NoDate) =>
            (vres.res.ok <=> (p.nbf <= vres.at /\ vres.at < p.exp))

\* a correctly signed token was presented at the very instant of its exp and
\* refused as expired
C10_Witness ==
  /\ vres.set /\ vres.svc = "access" /\ CorrectlySigned(vres.tok)
  /\ vres.tok.payload.nbf # NoDate
  /\ vres.tok.payload.exp = vres.at
  /\ ~vres.res.ok
  /\ vres.res.errs = {"ErrTokenExpired"}

\* C11: for every configuration, Validate never accepts a refresh token
\* returned by Generate, and ValidateRefreshToken never accepts an access
\* token returned by Generate.
C11_Separation ==
  (vres.set /\ gen.set) =>
    /\ (vres.svc = "access" /\ vres.tok = gen.pair.refresh) => ~vres.res.ok
    /\ (vres.svc = "refresh" /\ vres.tok = gen.pair.access) => ~vres.res.ok

\* ------------------------------------------------------------ SpecSession
\* the Authorization header of a request
NoHeader == [kind |-> "missing", tok |-> NoTok]
Bearer(tok) == [kind |-> "bearer", tok |-> tok]
\* made-up tokens that carry the identifier of the first issued token: alg
\* none, and a signature with a wrong key
Forged ==
  { [wf |-> TRUE, alg |-> "none", payload |-> [ZeroClaims EXCEPT !.jti = 1],
     sig |-> Signature("none", "")],
    [wf |-> TRUE, alg |-> "HS256", payload |-> [ZeroClaims EXCEPT !.jti = 1],
     sig |-> Signature("HS256", "bad")] }

Headers ==
  {NoHeader, [kind |-> "other", tok |-> NoTok]}
  \cup {Bearer(tok) : tok \in {gen.pair.access, gen.pair.refresh, NoTok} \cup Forged}

\* the response to a request, with what the handler saw
Response(op, hdr, valid, storeOk, accepted, status, code, message) ==
  [op |-> op, hdr |-> hdr.kind, jti |-> hdr.tok.payload.jti,
   exp |-> hdr.tok.payload.exp, again |-> hdr.tok.payload.jti \in loggedOut,
   fallback |-> FALSE, queried |-> FALSE, revoked |-> FALSE, valid |-> valid, storeOk |-> storeOk, accepted |-> accepted,
   status |-> status, code |-> code, message |-> message]

\* Blacklist.Add(jti, expiry) at time t: SET with ttl = expiry - t, nothing
\* when the ttl is not positive
BlacklistAdd_short(bl, jti, expiry, t) ==
  IF expiry - t <= 0 THEN bl ELSE [bl EXCEPT ![jti] = expiry - t - 1]
BlacklistAdd_m(bl, jti, expiry, t) ==
  IF expiry - t <= 0 THEN bl ELSE [bl EXCEPT ![jti] = expiry]
BlacklistAdd(bl, jti, expiry, t) ==
  IF expiry - t <= 0 THEN bl ELSE [bl EXCEPT ![jti] = expiry - t]

IsBlacklisted_m(bl, jti) == bl[jti] > 1
\* Blacklist.IsBlacklisted(jti): EXISTS
IsBlacklisted(bl, jti) == bl[jti] > 0

LogoutOf_m(valid) == IF valid THEN 0 ELSE 401
\* Service.Logout: when Validate fails it returns nil and Handler.Logout
\* answers 200; otherwise it goes on to Blacklist.Add
LogoutOf(valid) == IF valid THEN 0 ELSE 200

\* POST /auth/logout: Handler.Logout, and Service.Logout up to the return of
\* Validate
Logout(hdr) ==
  LET r == Validate(hdr.tok, cfg, now) IN
  /\ ~vres.set
  /\ ~LogoutPending(sres)
  /\ sres' =
       IF hdr.kind = "missing"
       THEN Response("logout", hdr, FALSE, TRUE, FALSE, 400,
                     "VALIDATION_FAILED", "Authorization header is required")
       ELSE IF hdr.kind # "bearer"
       THEN Response("logout", hdr, FALSE, TRUE, FALSE, 400,
                     "VALIDATION_FAILED", "Invalid Authorization header format")
       ELSE Response("logout", hdr, r.ok, TRUE, FALSE, LogoutOf(r.ok), "",
                     IF r.ok THEN "" ELSE "Logged out successfully")
  /\ UNCHANGED <<now, cfg, gen, nextJti, vres, blacklist, loggedOut>>
  /\ UNCHANGED notTok

\* Service.Logout: Blacklist.Add(claims.ID, claims.ExpiresAt), which reads
\* the clock again; ok is whether the store answers the SET
LogoutAdd(ok) ==
  /\ LogoutPending(sres)
  /\ IF sres.exp - now > 0 /\ ~ok
     THEN /\ sres' = [sres EXCEPT !.storeOk = FALSE, !.status = 500,
                                  !.code = "INTERNAL_ERROR",
                                  !.message = "Internal server error"]
          /\ UNCHANGED <<blacklist, loggedOut>>
     ELSE /\ sres' = [sres EXCEPT !.status = 200,
                                  !.message = "Logged out successfully"]
          /\ blacklist' = BlacklistAdd(blacklist, sres.jti, sres.exp, now)
          /\ loggedOut' = IF sres.exp - now > 0 THEN loggedOut \cup {sres.jti}
                          ELSE loggedOut
  /\ UNCHANGED <<now, cfg, gen, nextJti, vres>>
  /\ UNCHANGED notTok

ValidateToken_m(tok, bl, c, t, ok) ==
  LET r == Validate(tok, c, t) IN
  IF ~r.ok THEN [ok |-> FALSE, queried |-> FALSE, message |-> "invalid token"]
  ELSE IF ok /\ IsBlacklisted(bl, r.claims.jti)
  THEN [ok |-> FALSE, queried |-> TRUE, message |-> "token revoked"]
  ELSE [ok |-> TRUE, queried |-> TRUE, message |-> ""]
\* Service.ValidateToken(tokenString): Validate, then IsBlacklisted; ok is
\* whether the store answers
ValidateToken(tok, bl, c, t, ok) ==
  LET r == Validate(tok, c, t) IN
  IF ~r.ok THEN [ok |-> FALSE, queried |-> FALSE, message |-> "invalid token"]
  ELSE IF ~ok
  THEN [ok |-> FALSE, queried |-> TRUE, message |-> "failed to check blacklist"]
  ELSE IF IsBlacklisted(bl, r.claims.jti)
  THEN [ok |-> FALSE, queried |-> TRUE, message |-> "token revoked"]
  ELSE [ok |-> TRUE, queried |-> TRUE, message |-> ""]

\* GET /auth/me: middleware.Auth, Service.ValidateToken, Handler.Me; ok is
\* whether the store answers, dbok whether the user is loaded, fallback the
\* setting of JWT_FALLBACK_TO_SESSION in the environment
Me(hdr, ok, dbok, fallback) ==
  LET r == Validate(hdr.tok, cfg, now)
      v == ValidateToken(hdr.tok, blacklist, cfg, now, ok)
      rev == r.ok /\ IsBlacklisted(blacklist, r.claims.jti)
      res ==
       IF hdr.kind = "missing"
       THEN Response("me", hdr, FALSE, TRUE, FALSE, 401, "UNAUTHORIZED",
                     "Missing Authorization header")
       ELSE IF hdr.kind # "bearer"
       THEN Response("me", hdr, FALSE, TRUE, FALSE, 401, "UNAUTHORIZED",
                     "Invalid Authorization header format")
       ELSE IF ~v.ok
       THEN [Response("me", hdr, r.ok, ~r.ok \/ ok, FALSE, 401, "INVALID_TOKEN",
                      v.message)
               EXCEPT !.queried = v.queried, !.revoked = rev]
       ELSE IF ~dbok
       THEN [Response("me", hdr, r.ok, ok, TRUE, 500, "INTERNAL_ERROR",
                      "Internal server error")
               EXCEPT !.queried = v.queried, !.revoked = rev]
       ELSE [Response("me", hdr, r.ok, ok, TRUE, 200, "", "")
               EXCEPT !.queried = v.queried, !.revoked = rev]
  IN
  /\ ~vres.set
  /\ ~LogoutPending(sres)
  /\ sres' = [res EXCEPT !.fallback = fallback]
  /\ UNCHANGED <<now, cfg, gen, nextJti, vres, blacklist, loggedOut>>
  /\ UNCHANGED notTok

NextSession ==
  \/ \E in \in Inputs : GenerateTokens(in)
  \/ \E hdr \in Headers : Logout(hdr)
  \/ \E ok \in BOOLEAN : LogoutAdd(ok)
  \/ \E hdr \in Headers, ok, dbok, fallback \in BOOLEAN :
       \* a request without a bearer token reaches neither the store nor the
       \* directory; the flag matters to a request without a header only
       /\ hdr.kind = "bearer" \/ (ok /\ dbok)
       /\ hdr.kind = "missing" \/ ~fallback
       /\ Me(hdr, ok, dbok, fallback)
  \/ TickTok

SpecSession == InitTok /\ [][NextSession]_vars

\* C5: when the blacklist lookup fails, /auth/me accepts a token whose
\* signature and nbf/exp checks pass.
C5_FailOpen ==
  (sres.op = "me" /\ sres.valid /\ ~sres.storeOk) => sres.accepted

\* C6: after a successful logout with a valid access token, /auth/me with
\* that token answers 401 with error code TOKEN_REVOKED.
C6_TokenRevoked ==
  (sres.op = "me" /\ sres.hdr = "bearer" /\ sres.jti \in loggedOut) =>
    (sres.status = 401 /\ sres.code = "TOKEN_REVOKED")

\* C22: a blacklist entry written by Blacklist.Add(jti, expiry) at time now
\* has TTL exactly expiry - now; nothing is written when expiry - now <= 0;
\* so the entry of an issued token never outlives the token's expiry.
C22_EntryLifetime ==
  /\ (sres.op = "logout" /\ sres.valid /\ sres.status = 200) =>
       blacklist[sres.jti] = IF sres.exp - now > 0 THEN sres.exp - now ELSE 0
  /\ \A tok \in {gen.pair.access, gen.pair.refresh} :
       (gen.set /\ blacklist[tok.payload.jti] > 0) =>
         blacklist[tok.payload.jti] = tok.payload.exp - now

\* Blacklist.Add ran when the token it had been handed was at its expiry, and
\* stored nothing
C22_Witness ==
  /\ sres.op = "logout" /\ sres.valid /\ sres.status = 200
  /\ sres.jti = gen.pair.access.payload.jti
  /\ sres.exp - now <= 0
  /\ blacklist[sres.jti] = 0

\* C23: a second Blacklist.Add for a token identifier that is already stored
\* leaves the blacklist as the first one left it, and /auth/me with a token
\* whose identifier was stored is refused until the token expires.
C23_Idempotence ==
  /\ [][(LogoutPending(sres) /\ sres.again /\ sres'.status = 200) =>
          blacklist' = blacklist]_vars
  /\ []((sres.op = "me" /\ sres.valid /\ sres.storeOk /\ sres.jti \in loggedOut) =>
          ~sres.accepted)

\* the logout of an access token that an earlier logout had stored, some
\* time later, succeeded
C23_Witness ==
  /\ sres.op = "logout" /\ sres.valid /\ sres.again /\ sres.status = 200
  /\ sres.jti = gen.pair.access.payload.jti
  /\ blacklist[sres.jti] > 0
  /\ now > gen.at

\* C24: a logout with a bearer token that Validate rejects (malformed, badly
\* signed, expired) is answered 200 and writes nothing to the blacklist; the
\* logout of a valid token that is already revoked is answered 200 when the
\* store takes the write.
C24_LogoutSilent ==
  /\ [][(sres' # sres /\ sres'.op = "logout" /\ sres'.hdr = "bearer"
          /\ ~sres'.valid) =>
           (sres'.status = 200 /\ blacklist' = blacklist)]_vars
  /\ []((sres.op = "logout" /\ sres.valid /\ sres.again /\ sres.storeOk
          /\ ~LogoutPending(sres)) => sres.status = 200)

\* the logout of an issued access token after its expiry was answered 200 and
\* the token has no blacklist entry
C24_Witness ==
  /\ sres.op = "logout" /\ sres.hdr = "bearer" /\ ~sres.valid
  /\ sres.status = 200
  /\ gen.set /\ sres.jti = gen.pair.access.payload.jti
  /\ sres.exp <= now
  /\ blacklist[sres.jti] = 0

\* C27: /auth/me without a bearer token is answered 401 UNAUTHORIZED and the
\* handler does not run when the dual-mode flag is off; when the flag is on
\* the request is not rejected but handed on.
C27_FallbackFlag ==
  (sres.op = "me" /\ sres.hdr = "missing") =>
    IF sres.fallback THEN sres.status # 401
    ELSE sres.status = 401 /\ sres.code = "UNAUTHORIZED" /\ ~sres.accepted

C31_NoRevocationGap ==
  /\ [](\A tok \in {gen.pair.access, gen.pair.refresh} :
          (gen.set /\ tok.payload.jti \in loggedOut /\ now < tok.payload.exp) =>
            IsBlacklisted(blacklist, tok.payload.jti))
  /\ [][(sres' # sres /\ sres'.op = "me" /\ sres'.hdr = "bearer"
          /\ sres'.jti \in loggedOut) => ~sres'.accepted]_vars

\* /auth/me refused the revoked access token in the last instant before its
\* expiry, some time after the logout, with the store answering
C31_Witness ==
  /\ sres.op = "me" /\ sres.hdr = "bearer" /\ sres.valid /\ sres.storeOk
  /\ gen.set /\ sres.jti = gen.pair.access.payload.jti
  /\ sres.jti \in loggedOut
  /\ sres.exp - now = 1
  /\ sres.revoked /\ ~sres.accepted /\ sres.status = 401

\* ---------------------------------------------------------------- SpecDir
\* the gateway as deployed: independent secrets, a lifetime in whole seconds
InitDir ==
  /\ InitRLVars /\ InitOAVars /\ InitTokVars /\ InitMLVars /\ InitSDVars
  /\ users = Subjects
  /\ roles \in {Unlinked, PeerLinked}
  /\ lk = [p \in Links |-> NoLink]
  /\ cfg.refreshSecretKey # cfg.secretKey
  /\ cfg.accessTokenTTL % Res = 0

\* a request of lk ends with an error
LinkFail(p, out, cause) ==
  lk' = [lk EXCEPT ![p].pc = "done", ![p].out = out, ![p].cause = cause]

\* Authenticate With{Google,Clever,iCloud}: HandleCallback has returned the
\* provider's profile (ProviderUserID, Email, EmailVerified);
\* findOrCreate...User starts
Complete(p, provider, sub, email, verified) ==
  /\ lk[p].pc = "idle"
  /\ lk' = [lk EXCEPT ![p] = [NoLink EXCEPT !.pc = "by_uid",
                                            !.provider = provider, !.sub = sub,
                                            !.email = email,
                                            !.verified = verified, !.tbl = 1,
                                            !.seen = roles]]
  /\ UNCHANGED <<users, roles>>
  /\ UNCHANGED notDir

\* Find{Teacher,Student,Parent}By{Google,Clever,iCloud}UID
FindByUID(p, ok) ==
  /\ lk[p].pc = "by_uid"
  /\ LET table == ProviderTables(lk[p].provider)[lk[p].tbl]
         rows == FindRoleByUID(roles, table, Col(lk[p].provider), lk[p].sub)
     IN IF ~ok THEN LinkFail(p, "DB_ERROR", "db")
        ELSE IF rows # {}
        THEN lk' = [lk EXCEPT ![p].pc = "by_id",
                              ![p].role = CHOOSE k \in rows : TRUE]
        ELSE IF lk[p].tbl < Len(ProviderTables(lk[p].provider))
        THEN lk' = [lk EXCEPT ![p].tbl = @ + 1]
        ELSE lk' = [lk EXCEPT ![p].pc = "by_email"]
  /\ UNCHANGED <<users, roles>>
  /\ UNCHANGED notDir

\* FindByID(role.UserID) for the role record found by provider subject; for
\* an id with no row it returns (nil, nil), findOrCreate...User hands the nil
\* on, and Authenticate With... panics on usr.ID, which middleware.Recovery
\* answers with 500 INTERNAL_ERROR
FindByID(p, ok) ==
  /\ lk[p].pc = "by_id"
  /\ IF ~ok THEN LinkFail(p, "DB_ERROR", "db")
     ELSE IF roles[lk[p].role].user_id \notin DOMAIN users
     THEN lk' = [lk EXCEPT ![p].pc = "done", ![p].by = "uid",
                           ![p].out = "PANIC"]
     ELSE lk' = [lk EXCEPT ![p].pc = "finish", ![p].by = "uid",
                           ![p].usr = roles[lk[p].role].user_id]
  /\ UNCHANGED <<users, roles>>
  /\ UNCHANGED notDir

\* FindByEmail(info.Email), then the switch on usr.MetaType
FindUserByEmail(p, ok) ==
  /\ lk[p].pc = "by_email"
  /\ LET rows == FindByEmail(users, LinkEmail(lk[p].email, lk[p].verified))
         u == CHOOSE v \in rows : TRUE
     IN IF ~ok THEN LinkFail(p, "DB_ERROR", "db")
        ELSE IF rows = {} THEN LinkFail(p, "NO_ACCOUNT", "")
        ELSE IF users[u].meta_type \notin Linkable(lk[p].provider)
        THEN lk' = [lk EXCEPT ![p].pc = "done", ![p].usr = u, ![p].by = "email",
                              ![p].out = "PROVIDER_ROLE_MISMATCH"]
        ELSE lk' = [lk EXCEPT ![p].pc = "find_role", ![p].usr = u,
                              ![p].by = "email"]
  /\ UNCHANGED <<users, roles>>
  /\ UNCHANGED notDir

\* Find{Teacher,Student,Parent}(usr.MetaID)
FindRole(p, ok) ==
  /\ lk[p].pc = "find_role"
  /\ LET k == <<users[lk[p].usr].meta_type, users[lk[p].usr].meta_id>>
     IN IF ~ok THEN LinkFail(p, "DB_ERROR", "db")
        ELSE IF k \notin DOMAIN roles THEN LinkFail(p, "META_NOT_FOUND", "")
        ELSE lk' = [lk EXCEPT ![p].pc = "update", ![p].role = k]
  /\ UNCHANGED <<users, roles>>
  /\ UNCHANGED notDir

\* Update{Teacher,Student,Parent}{Google,Clever,iCloud}UID(role.ID, sub):
\* every error is wrapped as "failed to link ... account"
UpdateUID(p, ok) ==
  /\ lk[p].pc = "update"
  /\ LET col == Col(lk[p].provider) IN
     IF ~ok
     THEN /\ LinkFail(p, "LINK_FAILED", "db")
          /\ UNCHANGED roles
     ELSE IF UniqueViolation(roles, lk[p].role, col, lk[p].sub)
     THEN /\ LinkFail(p, "LINK_FAILED", "unique")
          /\ UNCHANGED roles
     ELSE /\ roles' = [roles EXCEPT ![lk[p].role][col] = lk[p].sub]
          /\ lk' = [q \in Links |->
                     IF q = p
                     THEN [lk[q] EXCEPT !.pc = "finish", !.wrote = TRUE]
                     ELSE IF lk[q].pc # "idle"
                     THEN [lk[q] EXCEPT !.conc = TRUE]
                     ELSE lk[q]]
  /\ UNCHANGED users
  /\ UNCHANGED notDir

\* UpdateLastLoggedOn (its error is only printed), then Generate
FinishLink(p, ok) ==
  /\ lk[p].pc = "finish"
  /\ IF BestEffort(ok)
     THEN lk' = [lk EXCEPT ![p].pc = "done", ![p].out = "OK",
                           ![p].subject = lk[p].usr, ![p].issued = TRUE,
                           ![p].upFailed = ~ok]
     ELSE LinkFail(p, "UPDATE_FAILED", "db")
  /\ UNCHANGED <<users, roles>>
  /\ UNCHANGED notDir

NextDir ==
  \/ \E p \in Links, provider \in Providers, sub \in Subs,
        email \in 0..NumUsers, verified \in BOOLEAN :
       Complete(p, provider, sub, email, verified)
  \/ \E p \in Links, ok \in BOOLEAN : FindByUID(p, ok)
  \/ \E p \in Links, ok \in BOOLEAN : FindByID(p, ok)
  \/ \E p \in Links, ok \in BOOLEAN : FindUserByEmail(p, ok)
  \/ \E p \in Links, ok \in BOOLEAN : FindRole(p, ok)
  \/ \E p \in Links, ok \in BOOLEAN : UpdateUID(p, ok)
  \/ \E p \in Links, ok \in BOOLEAN : FinishLink(p, ok)

SpecDir == InitDir /\ [][NextDir]_vars

\* a request that has ended, that no directory call failed for, and during
\* which no other request wrote a role record
RanAlone(p) == lk[p].pc = "done" /\ ~lk[p].conc /\ lk[p].cause # "db"

\* the role records after setting the provider column of subject u's record
LinkedTo(rl, u, col, sub) ==
  LET k == <<users[u].meta_type, users[u].meta_id>>
  IN IF k \in DOMAIN rl THEN [rl EXCEPT ![k][col] = sub] ELSE rl

InNoColumn(rl, sub) ==
  \A k \in DOMAIN rl : \A c \in Columns : rl[k][c] # sub

C15_RoleRestriction ==
  \A p \in Links :
    ( /\ lk[p].pc = "done"
      /\ lk[p].cause # "db"
      /\ lk[p].by = "email"
      /\ \/ /\ lk[p].provider \in {"google", "clever"}
            /\ users[lk[p].usr].meta_type \in {"Parent", "Admin"}
         \/ /\ lk[p].provider = "icloud"
            /\ users[lk[p].usr].meta_type \in {"Teacher", "Admin"} )
    => ( /\ lk[p].out = "PROVIDER_ROLE_MISMATCH"
         /\ ~lk[p].issued
         /\ ~lk[p].wrote
         /\ (~lk[p].conc => roles = lk[p].seen) )

\* an Admin has been refused by Google and a Teacher by iCloud
C15_Witness ==
  \E p, q \in Links :
    /\ lk[p].pc = "done" /\ lk[p].provider = "google"
    /\ lk[p].by = "email" /\ users[lk[p].usr].meta_type = "Admin"
    /\ lk[p].out = "PROVIDER_ROLE_MISMATCH"
    /\ lk[q].pc = "done" /\ lk[q].provider = "icloud"
    /\ lk[q].by = "email" /\ users[lk[q].usr].meta_type = "Teacher"
    /\ lk[q].out = "PROVIDER_ROLE_MISMATCH"
    /\ roles \in {Unlinked, PeerLinked}

\* C16: two Complete calls for the same (provider, provider_subject), in
\* either order or interleaved, never succeed for two different subjects.
C16_Determinism ==
  \A p, q \in Links :
    ( /\ lk[p].pc = "done" /\ lk[q].pc = "done"
      /\ lk[p].provider = lk[q].provider
      /\ lk[p].sub = lk[q].sub
      /\ lk[p].out = "OK" /\ lk[q].out = "OK" )
    => lk[p].subject = lk[q].subject

\* C17: when the directory rejects the account-link write because another
\* role record holds the provider subject, Complete reports a conflict, not
\* the failure it reports for the other errors of that write (LINK_FAILED).
C17_ConflictDistinct ==
  \A p \in Links :
    (lk[p].pc = "done" /\ lk[p].cause = "unique") => lk[p].out # "LINK_FAILED"

\* C33: account linking by email never replaces a provider subject: a
\* provider column of a role record that holds a non-null value keeps that
\* value in every step.
C33_NoOverwrite ==
  [][\A k \in DOMAIN roles : \A c \in Columns :
       roles[k][c] # 0 => roles'[k][c] = roles[k][c]]_vars

\* the role records after the peer system has linked the second teacher to
\* a Google subject and then deleted that teacher's subject, leaving the
\* role record behind (no foreign key ties a role record to its subject)
Orphaned == [Unlinked EXCEPT ![<<"Teacher", 2>>].google_uid = NumSubs]

InitOrphan ==
  /\ InitRLVars /\ InitOAVars /\ InitTokVars /\ InitMLVars /\ InitSDVars
  /\ users = [u \in UserIds \ {2} |-> Subjects[u]]
  /\ roles = Orphaned
  /\ lk = [p \in Links |-> NoLink]
  /\ cfg.refreshSecretKey # cfg.secretKey
  /\ cfg.accessTokenTTL % Res = 0

SpecOrphan == InitOrphan /\ [][NextDir]_vars

\* C35: when a role record matches provider_subject and the subject it
\* refers to does not exist, Complete ends with an error outcome and issues
\* no token: it neither goes on to issue a token nor ends in a panic.
C35_DanglingRole ==
  \A p \in Links :
    ( /\ lk[p].pc = "done"
      /\ lk[p].by = "uid"
      /\ lk[p].cause # "db"
      /\ roles[lk[p].role].user_id \notin DOMAIN users )
    => ( /\ lk[p].out \notin {"OK", "PANIC"}
         /\ ~lk[p].issued )

\* C39: the result of Complete does not depend on the profile's
\* email_verified flag: two requests with the same provider, provider
\* subject and email that started on the same directory, that no directory
\* call failed for and that no third request ran beside, end with the same
\* outcome and the same subject, whatever their flags.
C39_VerifiedIgnored ==
  \A p, q \in Links :
    ( /\ lk[p].pc = "done" /\ lk[q].pc = "done"
      /\ lk[p].cause # "db" /\ lk[q].cause # "db"
      /\ lk[p].provider = lk[q].provider
      /\ lk[p].sub = lk[q].sub
      /\ lk[p].email = lk[q].email
      /\ lk[p].seen = lk[q].seen
      /\ \A r \in Links \ {p, q} : lk[r].pc = "idle" )
    => ( /\ lk[p].out = lk[q].out
         /\ lk[p].subject = lk[q].subject
         /\ lk[p].issued = lk[q].issued )

\* a profile with an unverified email and one with the same email verified
\* have both been linked, by email, to the same subject
C39_Witness ==
  \E p, q \in Links :
    /\ lk[p].pc = "done" /\ lk[q].pc = "done"
    /\ lk[p].verified /\ ~lk[q].verified
    /\ lk[p].provider = lk[q].provider /\ lk[p].sub = lk[q].sub
    /\ lk[p].email = lk[q].email /\ lk[p].seen = lk[q].seen
    /\ lk[p].by = "email" /\ lk[q].by = "email"
    /\ lk[p].out = "OK" /\ lk[q].out = "OK"
    /\ lk[p].subject = lk[q].subject

\* -------------------------------------------------------------- SpecMagic
InitMagic ==
  /\ InitRLVars /\ InitOAVars /\ InitTokVars /\ InitDirVars /\ InitMLVars /\ InitSDVars
  /\ cfg.refreshSecretKey # cfg.secretKey
  /\ cfg.accessTokenTTL % Res = 0

\* AuthenticateLoginToken returns an error: Handler.LoginWithToken answers
\* 401 INVALID_TOKEN "Invalid or expired token" for every error
LoginTokenFail(r, out, cause) ==
  ml' = [ml EXCEPT ![r].pc = "done", ![r].out = out, ![r].cause = cause,
                   ![r].status = 401, ![r].code = "INVALID_TOKEN"]

\* GET /auth/token?token=SECRET arrives
LoginWithToken(r, secret) ==
  /\ ml[r].pc \in {"idle", "done"}
  /\ ml' = [ml EXCEPT ![r] = [NoReq EXCEPT !.pc = "find", !.secret = secret,
                                !.late = (secret \in TokenIds /\ uses[secret] > 0)]]
  /\ UNCHANGED <<loginTokens, uses>>
  /\ UNCHANGED notML

\* FindLoginToken(secret), then the expiry check of a non-permanent token
FindToken(r, ok) ==
  /\ ml[r].pc = "find"
  /\ LET rows == FindLoginToken(loginTokens, ml[r].secret)
         t == CHOOSE x \in rows : TRUE
     IN IF ~ok THEN LoginTokenFail(r, "DB_ERROR", "db")
        ELSE IF rows = {} THEN LoginTokenFail(r, "INVALID_TOKEN", "")
        ELSE IF TokenExpired(loginTokens[t])
        THEN ml' = [ml EXCEPT ![r].pc = "done", ![r].tok = t,
                              ![r].age = loginTokens[t].age,
                              ![r].out = "EXPIRED",
                              ![r].status = 401, ![r].code = "INVALID_TOKEN"]
        ELSE ml' = [ml EXCEPT ![r].pc = IF loginTokens[t].permanent
                                         THEN "load" ELSE "delete",
                              ![r].tok = t, ![r].age = loginTokens[t].age]
  /\ UNCHANGED <<loginTokens, uses>>
  /\ UNCHANGED notML

\* DeleteLoginToken(loginToken.ID): its error is only printed
DeleteToken(r, ok) ==
  /\ ml[r].pc = "delete"
  /\ loginTokens' = IF ok THEN DeleteLoginToken(loginTokens, ml[r].tok)
                    ELSE loginTokens
  /\ ml' = [ml EXCEPT ![r].pc = "load"]
  /\ UNCHANGED uses
  /\ UNCHANGED notML

\* FindWithMeta(loginToken.UserID)
LoadUser(r, ok) ==
  /\ ml[r].pc = "load"
  /\ IF ~ok THEN LoginTokenFail(r, "LOAD_FAILED", "db")
     ELSE IF loginTokens[ml[r].tok].user_id \notin DOMAIN users
     THEN LoginTokenFail(r, "USER_NOT_FOUND", "")
     ELSE ml' = [ml EXCEPT ![r].pc = "finish"]
  /\ UNCHANGED <<loginTokens, uses>>
  /\ UNCHANGED notML

\* UpdateLastLoggedOn (its error is only printed), Generate, 200
FinishToken(r, ok) ==
  /\ ml[r].pc = "finish"
  /\ uses[ml[r].tok] < MaxUses
  /\ IF BestEffort(ok)
     THEN /\ uses' = [uses EXCEPT ![ml[r].tok] = @ + 1]
          /\ ml' = [ml EXCEPT ![r].pc = "done", ![r].out = "OK",
                              ![r].issued = TRUE, ![r].upFailed = ~ok,
                              ![r].status = 200]
     ELSE /\ LoginTokenFail(r, "UPDATE_FAILED", "db")
          /\ UNCHANGED uses
  /\ UNCHANGED loginTokens
  /\ UNCHANGED notML

\* the clock: the login tokens age
TickML ==
  /\ \E t \in TokenIds : loginTokens[t].age < MaxAge
  /\ loginTokens' = [t \in TokenIds |->
                       IF loginTokens[t].age < MaxAge
                       THEN [loginTokens[t] EXCEPT !.age = @ + 1]
                       ELSE loginTokens[t]]
  /\ UNCHANGED <<ml, uses>>
  /\ UNCHANGED notML

NextMagic ==
  \/ \E r \in Reqs, secret \in 0..NumTokens : LoginWithToken(r, secret)
  \/ \E r \in Reqs, ok \in BOOLEAN : FindToken(r, ok)
  \/ \E r \in Reqs, ok \in BOOLEAN : DeleteToken(r, ok)
  \/ \E r \in Reqs, ok \in BOOLEAN : LoadUser(r, ok)
  \/ \E r \in Reqs, ok \in BOOLEAN : FinishToken(r, ok)
  \/ TickML

SpecMagic == InitMagic /\ [][NextMagic]_vars

\* C18: after an AuthenticateLoginToken with a non-persistent login token has
\* succeeded, the record is gone and every later AuthenticateLoginToken with
\* that secret fails with INVALID_TOKEN.
C18_SingleUse ==
  /\ \A t \in TokenIds :
       (~loginTokens[t].permanent /\ uses[t] > 0) => ~loginTokens[t].present
  /\ \A r \in Reqs :
       (ml[r].late /\ ml[r].secret \in TokenIds
        /\ ~loginTokens[ml[r].secret].permanent /\ ml[r].cause # "db") =>
         /\ ml[r].pc \in {"find", "done"}
         /\ ml[r].out \in {"", "INVALID_TOKEN"}
         /\ ~ml[r].issued

\* C19: presenting a non-persistent login token older than 5 minutes deletes
\* its record and fails with EXPIRED, and no token pair is issued.
C19_ExpiredDeleted ==
  \A r \in Reqs :
    (ml[r].pc = "done" /\ ml[r].tok \in TokenIds
     /\ ~loginTokens[ml[r].tok].permanent /\ ml[r].age > LoginTokenTTL) =>
      /\ ml[r].out = "EXPIRED"
      /\ ~ml[r].issued
      /\ ~loginTokens[ml[r].tok].present

\* C20: a login token with the persistence flag set authenticates at any age
\* and any number of times, and nothing deletes it.
C20_PersistentReusable ==
  /\ \A t \in TokenIds : LoginTokens0[t].permanent => loginTokens[t].present
  /\ \A r \in Reqs :
       (ml[r].pc = "done" /\ ml[r].secret \in TokenIds
        /\ LoginTokens0[ml[r].secret].permanent /\ ml[r].cause # "db") =>
         (ml[r].out = "OK" /\ ml[r].issued /\ ml[r].status = 200)

\* a permanent login token older than 5 minutes has authenticated for the
\* third time
C20_Witness ==
  \E r \in Reqs :
    /\ ml[r].pc = "done" /\ ml[r].out = "OK"
    /\ LoginTokens0[ml[r].tok].permanent
    /\ ml[r].late
    /\ ml[r].age > LoginTokenTTL
    /\ uses[ml[r].tok] = MaxUses


\* C32: a non-persistent login token yields at most one successful
\* authentication, also when several AuthenticateLoginToken calls with its
\* secret run at the same time and when the delete fails.
C32_AtMostOnce ==
  \A t \in TokenIds : ~LoginTokens0[t].permanent => uses[t] <= 1

\* --------------------------------------------------------------- SpecLogin
\* one of the three ways to log in runs: password, magic link or OAuth
PasswordIdle == \A p \in Procs : pc[p] = "idle"
MagicIdle == loginTokens = LoginTokens0 /\ \A r \in Reqs : ml[r].pc = "idle"
LinkIdle == \A p \in Links : lk[p].pc = "idle"

NextLogin ==
  \/ MagicIdle /\ LinkIdle /\ NextRL
  \/ PasswordIdle /\ LinkIdle /\ NextMagic
  \/ PasswordIdle /\ MagicIdle /\ NextDir

InitLogin == InitDir /\ roles = Unlinked

SpecLogin == InitLogin /\ [][NextLogin]_vars

\* C26: a failed insert into login_attempts or a failed update of
\* last_logged_on does not change what a login returns: a password login is
\* answered as its credentials and FindWithMeta decide, and a magic-link or
\* OAuth login that got as far as the update returns its token pair.
C26_BestEffort ==
  /\ \A p \in Procs :
       (pc[p] = "done" /\ attempt[p].logged) =>
         resp[p] = LoginOutcome(attempt[p])
  /\ \A r \in Reqs :
       ml[r].upFailed => (ml[r].out = "OK" /\ ml[r].issued /\ ml[r].status = 200)
  /\ \A p \in Links :
       lk[p].upFailed => (lk[p].out = "OK" /\ lk[p].issued)
  /\ \A r \in Reqs : ml[r].out # "UPDATE_FAILED"
  /\ \A p \in Links : lk[p].out # "UPDATE_FAILED"

\* a password login whose login_attempts insert and last_logged_on update
\* both failed was answered 200, and one whose insert failed
\* INVALID_CREDENTIALS
C26_Witness ==
  \E p, q \in Procs :
    /\ pc[p] = "done" /\ attempt[p].cred = "good"
    /\ attempt[p].logged /\ attempt[p].rows = <<>> /\ attempt[p].upFailed
    /\ resp[p] = LoginOK
    /\ pc[q] = "done" /\ attempt[q].cred = "badpw"
    /\ attempt[q].logged /\ attempt[q].rows = <<>>
    /\ resp[q] = LoginError

\* ------------------------------------------------------------ SpecShutdown
InitShutdown == InitLogin

\* a client connects and sends a request: ListenAndServe accepts it while the
\* listener is open; after server.Shutdown closed the listener, and after
\* the process is gone, the connection is refused
Connect(c) ==
  /\ conn[c].st = "idle"
  /\ conn' = [conn EXCEPT ![c] =
                IF srv = "running" THEN [NoConn EXCEPT !.st = "inflight"]
                ELSE [NoConn EXCEPT !.st = "refused", !.late = TRUE]]
  /\ UNCHANGED <<srv, budget>>
  /\ UNCHANGED notSD

\* the handler of an in-flight request returns and the response is written
Respond(c, status) ==
  /\ srv \in {"running", "draining"}
  /\ conn[c].st = "inflight"
  /\ conn' = [conn EXCEPT ![c].st = "answered", ![c].status = status]
  /\ UNCHANGED <<srv, budget>>
  /\ UNCHANGED notSD

\* SIGINT or SIGTERM: main leaves <-quit and calls server.Shutdown(ctx) with
\* a 5 s timeout
Signal ==
  /\ srv = "running"
  /\ srv' = "draining"
  /\ budget' = ShutdownBudget
  /\ UNCHANGED conn
  /\ UNCHANGED notSD

\* the clock of the shutdown context
TickShutdown ==
  /\ srv = "draining"
  /\ budget > 0
  /\ budget' = budget - 1
  /\ UNCHANGED <<srv, conn>>
  /\ UNCHANGED notSD

\* server.Shutdown returns nil once no connection is active: "Server stopped"
ShutdownReturns ==
  /\ srv = "draining"
  /\ \A c \in Conns : conn[c].st # "inflight"
  /\ srv' = "stopped"
  /\ UNCHANGED <<budget, conn>>
  /\ UNCHANGED notSD

\* the context expires first: server.Shutdown returns its error and
\* logger.Fatal ends the process; the connections still active are cut
ShutdownTimeout ==
  /\ srv = "draining"
  /\ budget = 0
  /\ \E c \in Conns : conn[c].st = "inflight"
  /\ srv' = "killed"
  /\ conn' = [c \in Conns |-> IF conn[c].st = "inflight"
                               THEN [conn[c] EXCEPT !.st = "cut"] ELSE conn[c]]
  /\ UNCHANGED budget
  /\ UNCHANGED notSD

NextShutdown ==
  \/ \E c \in Conns : Connect(c)
  \/ \E c \in Conns, status \in {200, 401} : Respond(c, status)
  \/ Signal
  \/ TickShutdown
  \/ ShutdownReturns
  \/ ShutdownTimeout

SpecShutdown == InitShutdown /\ [][NextShutdown]_vars

\* C28: after the termination signal no new connection is accepted, and a
\* request still in flight when the shutdown budget ends is answered 503.
C28_GracefulShutdown ==
  \A c \in Conns :
    /\ conn[c].late => conn[c].st = "refused"
    /\ conn[c].st = "cut" => conn[c].status = 503
====
